---- MODULE Spec2Model ----
(***************************************************************************)
(* A model of the relativity visualizer (src/script.js): the math kernel   *)
(* (calculateLorentzFactor, lorentzTransform,                              *)
(* calculateRelativisticVelocityAddition) and the spacetime-diagram state  *)
(* machine (velocity sliders, active frame, unit mode, events, canvas      *)
(* geometry, draw).                                                        *)
(*                                                                         *)
(* JavaScript numbers are modelled as exact rationals over arbitrary-      *)
(* precision naturals, plus Infinity, -Infinity and NaN.  Math.sqrt is     *)
(* exact on squares of rationals and rounded down to 1/SqrtScale           *)
(* otherwise; every other operation is exact, so a tolerance in a property *)
(* absorbs only the rounding of Math.sqrt.                                 *)
(***************************************************************************)
EXTENDS Integers, Sequences, FiniteSets, TLC

----------------------------------------------------------------------------
(* Naturals of any size: little-endian sequences of limbs in 0..Base-1,    *)
(* without leading zero limbs; <<>> is zero.                               *)

Base == 100 * 100

IntMax(a, b) == IF a > b THEN a ELSE b

\* limb i of a, 0 beyond its length
NatLimb(a, i) == IF i <= Len(a) THEN a[i] ELSE 0

\* a without its leading zero limbs
NatStrip(a) ==
    LET nz == {i \in 1..Len(a) : a[i] # 0}
    IN  IF nz = {} THEN <<>>
        ELSE SubSeq(a, 1, CHOOSE i \in nz : \A j \in nz : j <= i)

\* the natural of an integer n >= 0
NatFromInt(n) == NatStrip(<<n % Base, (n \div Base) % Base, n \div (Base * Base)>>)

\* a carry enters limb i of a sum with limb sums s: some lower limb overflows
\* and every limb between is full
CarryInto(s, i) ==
    \E j \in 1..(i - 1) : s[j] >= Base /\ \A m \in (j + 1)..(i - 1) : s[m] = Base - 1

NatAdd(a, b) ==
    IF a = <<>> THEN b
    ELSE IF b = <<>> THEN a
    ELSE LET n == IntMax(Len(a), Len(b)) + 1
             s == [i \in 1..n |-> NatLimb(a, i) + NatLimb(b, i)]
         IN  NatStrip([i \in 1..n |->
                          (s[i] + (IF CarryInto(s, i) THEN 1 ELSE 0)) % Base])

\* a borrow is taken from limb i of a difference with limb differences d
BorrowFrom(d, i) ==
    \E j \in 1..(i - 1) : d[j] < 0 /\ \A m \in (j + 1)..(i - 1) : d[m] = 0

\* a - b for a >= b
NatSub(a, b) ==
    IF a = b THEN <<>>
    ELSE LET d == [i \in 1..Len(a) |-> a[i] - NatLimb(b, i)]
         IN  NatStrip([i \in 1..Len(a) |->
                          (d[i] - (IF BorrowFrom(d, i) THEN 1 ELSE 0) + Base) % Base])

\* a * k + c for a limb k and an integer c >= 0
NatMulLimb(a, k, c) ==
    IF a = <<>> \/ k = 0 THEN NatFromInt(c)
    ELSE LET low  == [i \in 1..Len(a) |-> (a[i] * k) % Base]
             high == [i \in 1..(Len(a) + 1) |->
                         IF i = 1 THEN 0 ELSE (a[i - 1] * k) \div Base]
         IN  NatAdd(NatAdd(NatStrip(low), NatStrip(high)), NatFromInt(c))

\* a * Base^k
NatShift(a, k) == IF a = <<>> THEN <<>> ELSE [i \in 1..k |-> 0] \o a

\* a * (the limbs lo..hi of b, in place)
RECURSIVE NatMulRange(_, _, _, _)
NatMulRange(a, b, lo, hi) ==
    IF lo = hi THEN NatShift(NatMulLimb(a, b[lo], 0), lo - 1)
    ELSE LET mid == (lo + hi) \div 2
         IN  NatAdd(NatMulRange(a, b, lo, mid), NatMulRange(a, b, mid + 1, hi))

NatMul(a, b) == IF a = <<>> \/ b = <<>> THEN <<>> ELSE NatMulRange(a, b, 1, Len(b))

\* -1, 0 or 1 as a < b, a = b or a > b
NatCmp(a, b) ==
    IF Len(a) < Len(b) THEN -1
    ELSE IF Len(a) > Len(b) THEN 1
    ELSE LET diff == {i \in 1..Len(a) : a[i] # b[i]}
         IN  IF diff = {} THEN 0
             ELSE LET top == CHOOSE i \in diff : \A j \in diff : j <= i
                  IN  IF a[top] < b[top] THEN -1 ELSE 1

\* Base^k
NatPowBase(k) == [i \in 1..(k + 1) |-> IF i = k + 1 THEN 1 ELSE 0]

\* (twoRB + x) * x <= cur
SqrtFits(twoRB, cur, x) ==
    NatCmp(NatMulLimb(NatAdd(twoRB, NatFromInt(x)), x, 0), cur) <= 0

\* the largest t in 0..9 such that x = low + t * step fits
SqrtDigit(twoRB, cur, low, step) ==
    LET f(t) == SqrtFits(twoRB, cur, low + t * step)
    IN  IF f(5)
        THEN (IF f(7) THEN (IF f(8) THEN (IF f(9) THEN 9 ELSE 8) ELSE 7)
              ELSE (IF f(6) THEN 6 ELSE 5))
        ELSE (IF f(2) THEN (IF f(3) THEN (IF f(4) THEN 4 ELSE 3) ELSE 2)
              ELSE (IF f(1) THEN 1 ELSE 0))

\* the largest x in 0..Base-1 with (twoRB + x) * x <= cur, digit by digit
SqrtLimb(twoRB, cur) ==
    LET a == 1000 * SqrtDigit(twoRB, cur, 0, 1000)
        b == a + 100 * SqrtDigit(twoRB, cur, a, 100)
        c == b + 10 * SqrtDigit(twoRB, cur, b, 10)
    IN  c + SqrtDigit(twoRB, cur, c, 1)

\* one step of the schoolbook square root: from <<root, remainder>> of the
\* higher limbs and the next two limbs to <<root, remainder>> with them
SqrtStep(top, low2) ==
    LET cur   == NatStrip(low2 \o top[2])
        twoRB == NatStrip(<<0>> \o NatAdd(top[1], top[1]))
        x     == SqrtLimb(twoRB, cur)
    IN  <<NatStrip(<<x>> \o top[1]),
          IF x = 0 THEN cur ELSE NatSub(cur, NatMulLimb(NatAdd(twoRB, <<x>>), x, 0))>>

\* <<floor(sqrt(n)), n - floor(sqrt(n))^2>> for n of an even number of limbs
RECURSIVE NatSqrtRem(_)
NatSqrtRem(n) ==
    IF n = <<>> THEN << <<>>, <<>> >>
    ELSE LET top == NatSqrtRem(SubSeq(n, 3, Len(n)))
         IN  \* the higher limbs first, then the step
             IF Len(top) = 2 THEN SqrtStep(top, SubSeq(n, 1, 2)) ELSE top

NatEven(n) == IF Len(n) % 2 = 1 THEN n \o <<0>> ELSE n

\* floor(sqrt(n))
NatSqrt(n) == NatSqrtRem(NatEven(n))[1]

IsSquare(n) == NatSqrtRem(NatEven(n))[2] = <<>>

----------------------------------------------------------------------------
(* JavaScript numbers: [k, s, n, d] with k = "fin" (the rational s*n/d,    *)
(* s the sign in {-1, 0, 1}, d > 0), "inf" (s = 1: Infinity, s = -1:       *)
(* -Infinity) or "nan".                                                    *)

\* Euclid's algorithm, three divisions a level
RECURSIVE IntGcd(_, _)
IntGcd(a, b) ==
    IF b = 0 THEN a
    ELSE LET r1 == a % b
         IN  IF r1 = 0 THEN b
             ELSE LET r2 == b % r1
                  IN  IF r2 = 0 THEN r1
                      ELSE LET r3 == r1 % r2
                           IN  IF r3 = 0 THEN r2 ELSE IntGcd(r2, r3)

\* the value of a natural of at most two limbs
NatToInt(a) ==
    IF a = <<>> THEN 0 ELSE IF Len(a) = 1 THEN a[1] ELSE a[1] + Base * a[2]

\* s*n/d; in lowest terms when n and d have at most two limbs each
Fin(s, n, d) ==
    IF n = <<>> THEN [k |-> "fin", s |-> 0, n |-> <<>>, d |-> <<1>>]
    ELSE IF Len(n) <= 2 /\ Len(d) <= 2
    THEN LET g == IntGcd(NatToInt(n), NatToInt(d))
         IN  [k |-> "fin", s |-> s, n |-> NatFromInt(NatToInt(n) \div g),
              d |-> NatFromInt(NatToInt(d) \div g)]
    ELSE [k |-> "fin", s |-> s, n |-> n, d |-> d]

Inf(s) == [k |-> "inf", s |-> s, n |-> <<1>>, d |-> <<1>>]

Infinity == Inf(1)

NaN == [k |-> "nan", s |-> 0, n |-> <<>>, d |-> <<1>>]

IntSign(i) == IF i > 0 THEN 1 ELSE IF i < 0 THEN -1 ELSE 0

IntAbs(i) == IF i < 0 THEN -i ELSE i

\* the number a / b, for integers a and b > 0
Num(a, b) == Fin(IntSign(a), NatFromInt(IntAbs(a)), NatFromInt(b))

Zero == Num(0, 1)

One == Num(1, 1)

isNaN(x) == x.k = "nan"

JsNeg(x) == [x EXCEPT !.s = -x.s]

\* Math.abs
JsAbs(x) == [x EXCEPT !.s = IF x.s = 0 THEN 0 ELSE 1]

\* Math.sign
JsSign(x) ==
    IF isNaN(x) THEN NaN ELSE Num(x.s, 1)

\* the sign of s1*a + s2*b and its magnitude, for naturals a and b
SignedSum(s1, a, s2, b) ==
    IF s1 = 0 THEN <<s2, b>>
    ELSE IF s2 = 0 THEN <<s1, a>>
    ELSE IF s1 = s2 THEN <<s1, NatAdd(a, b)>>
    ELSE LET c == NatCmp(a, b)
         IN  IF c = 0 THEN <<0, <<>> >>
             ELSE IF c > 0 THEN <<s1, NatSub(a, b)>>
             ELSE <<s2, NatSub(b, a)>>

\* x + y
JsAdd(x, y) ==
    IF isNaN(x) \/ isNaN(y) THEN NaN
    ELSE IF x.k = "inf" /\ y.k = "inf" THEN (IF x.s = y.s THEN x ELSE NaN)
    ELSE IF x.k = "inf" THEN x
    ELSE IF y.k = "inf" THEN y
    ELSE IF x.d = y.d
         THEN LET r == SignedSum(x.s, x.n, y.s, y.n) IN Fin(r[1], r[2], x.d)
         ELSE LET r == SignedSum(x.s, NatMul(x.n, y.d), y.s, NatMul(y.n, x.d))
              IN  Fin(r[1], r[2], NatMul(x.d, y.d))

\* x - y
JsSub(x, y) == JsAdd(x, JsNeg(y))

\* x * y
JsMul(x, y) ==
    IF isNaN(x) \/ isNaN(y) THEN NaN
    ELSE IF x.k = "inf" \/ y.k = "inf"
         THEN (IF x.s = 0 \/ y.s = 0 THEN NaN ELSE Inf(x.s * y.s))
    ELSE Fin(x.s * y.s, NatMul(x.n, y.n), NatMul(x.d, y.d))

\* x / y (a zero divisor is +0)
JsDiv(x, y) ==
    IF isNaN(x) \/ isNaN(y) THEN NaN
    ELSE IF x.k = "inf"
         THEN (IF y.k = "inf" THEN NaN ELSE Inf(IF y.s = 0 THEN x.s ELSE x.s * y.s))
    ELSE IF y.k = "inf" THEN Zero
    ELSE IF y.s = 0 THEN (IF x.s = 0 THEN NaN ELSE Inf(x.s))
    ELSE Fin(x.s * y.s, NatMul(x.n, y.d), NatMul(x.d, y.n))

\* -1, 0 or 1 as x < y, x = y or x > y, for x and y not NaN
JsCmp(x, y) ==
    IF x.k = "inf" /\ y.k = "inf" THEN IntSign(x.s - y.s)
    ELSE IF x.k = "inf" THEN x.s
    ELSE IF y.k = "inf" THEN -y.s
    ELSE IF x.s # y.s THEN IntSign(x.s - y.s)
    ELSE IF x.s = 0 THEN 0
    ELSE x.s * NatCmp(NatMul(x.n, y.d), NatMul(y.n, x.d))

\* x < y
JsLt(x, y) == ~isNaN(x) /\ ~isNaN(y) /\ JsCmp(x, y) < 0

\* x <= y
JsLe(x, y) == ~isNaN(x) /\ ~isNaN(y) /\ JsCmp(x, y) <= 0

\* x >= y
JsGe(x, y) == JsLe(y, x)

\* x === y on numbers (equal values; NaN equals nothing)
JsEq(x, y) == ~isNaN(x) /\ ~isNaN(y) /\ JsCmp(x, y) = 0

\* 10^16: an inexact Math.sqrt is rounded down to a multiple of 1/(d * SqrtScale)
SqrtScale == NatPowBase(4)

\* Math.sqrt of n/d = sqrt(n*d)/d: exact when n*d is a perfect square
JsSqrt(x) ==
    IF isNaN(x) \/ x.s < 0 THEN NaN
    ELSE IF x.k = "inf" THEN x
    ELSE LET nd == NatMul(x.n, x.d)
         IN  IF IsSquare(nd) THEN Fin(1, NatSqrt(nd), x.d)
             ELSE Fin(1, NatSqrt(NatMul(nd, NatMul(SqrtScale, SqrtScale))),
                      NatMul(x.d, SqrtScale))

----------------------------------------------------------------------------
(* Number.prototype.toFixed and toExponential.  A text is the record of    *)
(* what the string shows: its form ("NaN", "Infinity", "fixed" with        *)
(* digits / 10^places, "exponential" with digits / 100 * 10^exponent) and  *)
(* its sign.  The rounding is that of the exact value, ties upwards.       *)

\* b * x <= cur
DivFits(b, cur, x) == NatCmp(NatMulLimb(b, x, 0), cur) <= 0

\* the largest decimal digit t with b * (low + t * step) <= cur, by bisection
DivDigit(b, cur, low, step) ==
    LET f(t) == DivFits(b, cur, low + t * step)
    IN  IF f(5)
        THEN (IF f(7) THEN (IF f(8) THEN (IF f(9) THEN 9 ELSE 8) ELSE 7)
              ELSE (IF f(6) THEN 6 ELSE 5))
        ELSE (IF f(2) THEN (IF f(3) THEN (IF f(4) THEN 4 ELSE 3) ELSE 2)
              ELSE (IF f(1) THEN 1 ELSE 0))

\* the largest x in 0..Base-1 with b * x <= cur, digit by digit
DivLimb(b, cur) ==
    LET a == 1000 * DivDigit(b, cur, 0, 1000)
        h == a + 100 * DivDigit(b, cur, a, 100)
        c == h + 10 * DivDigit(b, cur, h, 10)
    IN  c + DivDigit(b, cur, c, 1)

\* one step of the long division by b: from <<quotient, remainder>> of the
\* higher limbs and the next limb to <<quotient, remainder>> with it
DivStep(top, limb, b) ==
    LET cur == NatStrip(<<limb>> \o top[2])
        x   == DivLimb(b, cur)
    IN  <<NatStrip(<<x>> \o top[1]), NatSub(cur, NatMulLimb(b, x, 0))>>

\* <<a div b, a mod b>> for b > 0
RECURSIVE NatDivRem(_, _)
NatDivRem(a, b) ==
    IF a = <<>> THEN << <<>>, <<>> >>
    ELSE LET top == NatDivRem(Tail(a), b)
         IN  \* the higher limbs first, then the step
             IF Len(top) = 2 THEN DivStep(top, a[1], b) ELSE top

\* 10^k (Base is 10^4)
NatPowTen(k) ==
    LET low == IF k % 4 = 0 THEN 1 ELSE IF k % 4 = 1 THEN 10 ELSE IF k % 4 = 2 THEN 100 ELSE 1000
    IN  [i \in 1..(k \div 4) |-> 0] \o <<low>>

\* n * 10^k / d rounded to the nearest integer, ties upwards (k may be negative)
RoundScaled(n, d, k) ==
    LET num == IF k >= 0 THEN NatMul(n, NatPowTen(k)) ELSE n
        den == IF k >= 0 THEN d ELSE NatMul(d, NatPowTen(-k))
        twice == NatAdd(den, den)
    IN  IF twice = <<>> THEN <<>>
        ELSE NatDivRem(NatAdd(NatAdd(num, num), den), twice)[1]

Text(form, negative, digits, places, exponent) ==
    [form |-> form, negative |-> negative, digits |-> digits,
     places |-> places, exponent |-> exponent]

\* x.toFixed(places), for |x| < 1e21
toFixed(x, places) ==
    IF isNaN(x) THEN Text("NaN", FALSE, <<>>, 0, 0)
    ELSE IF x.k = "inf" THEN Text("Infinity", x.s < 0, <<>>, 0, 0)
    ELSE Text("fixed", x.s < 0, RoundScaled(x.n, x.d, places), places, 0)

\* the number of decimal digits of a natural n > 0
DecimalLength(n) ==
    LET top == n[Len(n)]
    IN  4 * (Len(n) - 1)
          + (IF top >= 1000 THEN 4 ELSE IF top >= 100 THEN 3 ELSE IF top >= 10 THEN 2 ELSE 1)

\* 10^e <= n / d
AtLeastPowTen(n, d, e) ==
    IF e >= 0 THEN NatCmp(n, NatMul(d, NatPowTen(e))) >= 0
    ELSE NatCmp(NatMul(n, NatPowTen(-e)), d) >= 0

\* x.toExponential(2)
toExponential(x) ==
    IF isNaN(x) THEN Text("NaN", FALSE, <<>>, 0, 0)
    ELSE IF x.k = "inf" THEN Text("Infinity", x.s < 0, <<>>, 0, 0)
    ELSE IF x.s = 0 THEN Text("exponential", FALSE, <<>>, 2, 0)
    ELSE LET guess == DecimalLength(x.n) - DecimalLength(x.d)
             e == IF AtLeastPowTen(x.n, x.d, guess) THEN guess ELSE guess - 1
             m == RoundScaled(x.n, x.d, 2 - e)
         IN  IF m = <<1000>> THEN Text("exponential", x.s < 0, <<100>>, 2, e + 1)
             ELSE Text("exponential", x.s < 0, m, 2, e)

----------------------------------------------------------------------------
(* Module state of script.js                                               *)

VARIABLES
    isSIUnits,                  \* let isSIUnits (line 7)
    C,                          \* let C (line 5): C_norm or C_SI
    velocitySpacetimeInput,     \* value of the #velocity-spacetime slider, in thousandths
    globalVelocityInput,        \* value of the #global-velocity slider, in thousandths
    currentSpacetimeVelocity,   \* let currentSpacetimeVelocity (line 377)
    activeFrame,                \* let activeFrame (line 378)
    events,                     \* let events (line 380): sequence of [x, ct]
    canvas,                     \* sketch.width, sketch.height, originX, originY, scaleFactor
    drawn,                      \* what the last sketch.draw read: velocity, frame, events, geometry, units
    last,                       \* the handler that ran last: name, pointer position, events held before
    probe,                      \* the call of a function on its own: name, arguments, unit mode
    velocityTimeInput,          \* value of the #velocity-time slider, in thousandths
    velocityLengthInput,        \* value of the #velocity-length slider, in thousandths
    twinVelocityInput,          \* value of the #twin-velocity slider, in thousandths
    length3DVelocityInput,      \* value of the #length-3d-velocity slider, in thousandths
    dopplerVelocityInput,       \* value of the #doppler-velocity slider, in thousandths
    velocityV1Input,            \* value of the #velocity-v1 slider, in thousandths
    velocityV2Input,            \* value of the #velocity-v2 slider, in thousandths
    isGlobalUpdate,             \* globalVelocityInput.isGlobalUpdate (lines 126, 161)
    isTimeDilationPlaying,      \* let isTimeDilationPlaying (line 243)
    stationaryTime,             \* let stationaryTime (line 240), in steps of deltaTime
    movingTime,                 \* let movingTime (line 241): the bag of the slider values its ticks read
    animationFrameId,           \* let animationFrameId (line 242): undefined, or the handle of a
                                \* callback that is pending, or of one that is spent
    pendingFrames,              \* callbacks of updateTimeDilationClocks the browser holds for the next frame
    lorentzFactorTimeDisplay,   \* the slider value #lorentz-factor-time was last written from
    lorentzFactorLengthDisplay, \* the slider value #lorentz-factor-length was last written from
    updateRuns                  \* runs of updateAllVelocities begun by the handler that ran last

\* the sliders of the sections other than the diagram's
sectionVars == <<velocityTimeInput, velocityLengthInput, twinVelocityInput,
                 length3DVelocityInput, dopplerVelocityInput, isGlobalUpdate, updateRuns>>

\* the velocity-addition sliders
additionVars == <<velocityV1Input, velocityV2Input>>

\* the time-dilation clocks and their animation
clockVars == <<isTimeDilationPlaying, stationaryTime, movingTime, animationFrameId,
               pendingFrames>>

\* the Lorentz factors shown by the time-dilation and length-contraction panels
displayVars == <<lorentzFactorTimeDisplay, lorentzFactorLengthDisplay>>

panelVars == <<sectionVars, additionVars, clockVars, displayVars>>

vars == <<isSIUnits, C, velocitySpacetimeInput, globalVelocityInput,
          currentSpacetimeVelocity, activeFrame, events, canvas, drawn, last, probe,
          panelVars>>

uiVars == <<velocitySpacetimeInput, globalVelocityInput, currentSpacetimeVelocity,
            activeFrame, events, canvas, drawn, last, panelVars>>

C_norm == 1

C_SI == 299792458

----------------------------------------------------------------------------
(* Relativity math kernel                                                  *)

\* parseFloat of a number: the number itself
parseFloat(value) == value

safeParseFloat(value, defaultValue) ==
    LET parsed == parseFloat(value)
    IN  IF isNaN(parsed) THEN defaultValue ELSE parsed

\* 1e-9
Epsilon == Num(1, 1000000000)

\* The identifiers calculateLorentzFactor can resolve: its parameter, its
\* locals and the script's top-level bindings.  effective_v is declared only
\* inside sketch.draw (line 425).
calculateLorentzFactorScope ==
    {"v", "effective_v_over_c", "denominator", "err",
     "C_norm", "C_SI", "C", "isSIUnits", "isFormulasVisible", "safeParseFloat",
     "lastUpdate", "currentSpacetimeVelocity", "activeFrame", "s", "events"}

\* Evaluating the template literal of line 39 throws a ReferenceError when
\* effective_v does not resolve; the catch of line 50 then returns 1.
WarnThrows == "effective_v" \notin calculateLorentzFactorScope

\* variant: the square root of line 43 left out
calculateLorentzFactorNoRoot(v) ==
    LET effective_v_over_c == safeParseFloat(v, Zero)
    IN  IF JsGe(JsAbs(effective_v_over_c), One)
        THEN (IF WarnThrows THEN One ELSE Infinity)
        ELSE JsDiv(One, JsSub(One, JsMul(effective_v_over_c, effective_v_over_c)))

calculateLorentzFactor(v) ==
    LET effective_v_over_c == safeParseFloat(v, Zero)
    IN  IF JsGe(JsAbs(effective_v_over_c), One)
        THEN (IF WarnThrows THEN One ELSE Infinity)
        ELSE LET denominator ==
                     JsSqrt(JsSub(One, JsMul(effective_v_over_c, effective_v_over_c)))
             IN  IF JsLt(denominator, Epsilon) THEN Infinity
                 ELSE JsDiv(One, denominator)

lorentzTransform(t, x, v) ==
    LET gamma == calculateLorentzFactor(v)
        v_over_c == JsDiv(v, Num(C, 1))
        tPrime == JsMul(gamma, JsSub(t, JsDiv(JsMul(v_over_c, x), Num(C, 1))))
        xPrime == JsMul(gamma, JsSub(x, JsMul(v_over_c, JsMul(Num(C, 1), t))))
    IN  [tPrime |-> tPrime, xPrime |-> xPrime]

\* variant: the Galilean sum, without the division of line 799
calculateGalileanVelocityAddition(v1, v2) == JsAdd(v1, v2)

calculateRelativisticVelocityAddition(v1, v2) ==
    LET sum == JsAdd(v1, v2)
        denominator == JsAdd(One, JsMul(v1, v2))
    IN  IF JsLt(JsAbs(denominator), Epsilon)
        THEN JsMul(JsSign(sum), Num(C, 1))
        ELSE JsDiv(sum, denominator)

----------------------------------------------------------------------------
(* Spacetime diagram: canvas geometry, click handler, draw                 *)

IntMin(a, b) == IF a < b THEN a ELSE b

\* sketch.setup / sketch.windowResized for a container of w by h pixels
Geometry(w, h) ==
    [width |-> w, height |-> h,
     originX |-> Num(w, 2), originY |-> Num(h, 2),
     scaleFactor |-> Num(IntMin(w, h), 5)]

\* parseFloat of a range input's value, kept in thousandths (step 0.001)
SliderNumber(n) == Num(n, 1000)

\* variant: the bounds of line 731 taken inclusively
InsideCanvasInclusive(mouseX, mouseY, cv) ==
    mouseX >= 0 /\ mouseX <= cv.width /\ mouseY >= 0 /\ mouseY <= cv.height

\* the condition of sketch.mouseClicked
InsideCanvas(mouseX, mouseY, cv) ==
    mouseX > 0 /\ mouseX < cv.width /\ mouseY > 0 /\ mouseY < cv.height

\* variant: the flip of the y axis (the minus sign of line 737) left out
ClickedEventNoFlip(mouseX, mouseY, cv) ==
    [x |-> JsDiv(JsSub(Num(mouseX, 1), cv.originX), cv.scaleFactor),
     ct |-> JsDiv(JsSub(Num(mouseY, 1), cv.originY), cv.scaleFactor)]

\* the record sketch.mouseClicked builds from the pointer position
ClickedEvent(mouseX, mouseY, cv) ==
    LET unitScale == Num(C_norm, 1)
        x_coord_in_units ==
            JsDiv(JsSub(Num(mouseX, 1), cv.originX), JsMul(cv.scaleFactor, unitScale))
        ct_coord_in_units ==
            JsNeg(JsDiv(JsSub(Num(mouseY, 1), cv.originY),
                        JsMul(cv.scaleFactor, unitScale)))
    IN  [x |-> x_coord_in_units, ct |-> ct_coord_in_units]

\* variant: a push that skips a record already held
PushEventUnique(evs, e) ==
    IF \E i \in 1..Len(evs) : evs[i] = e THEN evs ELSE Append(evs, e)

\* events.push
PushEvent(evs, e) == Append(evs, e)

\* the ellipse of one event: its centre, in canvas units from the origin
EventMarker(event, cv) ==
    LET unitScale == JsDiv(One, Num(C_norm, 1))
    IN  <<JsMul(JsMul(event.x, cv.scaleFactor), unitScale),
          JsMul(JsMul(event.ct, cv.scaleFactor), unitScale)>>

\* the simultaneity line of one event: <<x1, y1, x2, y2>>
EventLine(event, frame, v, cv) ==
    LET canvas_half_width == JsDiv(Num(cv.width, 1), Num(2, 1))
        extend_line_factor == Num(2, 1)
        event_ct_scaled == JsMul(event.ct, cv.scaleFactor)
    IN  IF frame = "stationary"
        THEN <<JsNeg(canvas_half_width), event_ct_scaled,
               canvas_half_width, event_ct_scaled>>
        ELSE LET gamma_obs == calculateLorentzFactor(v)
                 event_t_prime == JsMul(gamma_obs, JsSub(event.ct, JsMul(v, event.x)))
                 intercept_on_ct_axis ==
                     JsMul(JsDiv(event_t_prime, gamma_obs), cv.scaleFactor)
                 simult_line_x1 == JsMul(JsNeg(canvas_half_width), extend_line_factor)
                 simult_line_x2 == JsMul(canvas_half_width, extend_line_factor)
             IN  <<simult_line_x1,
                   JsAdd(JsMul(v, simult_line_x1), intercept_on_ct_axis),
                   simult_line_x2,
                   JsAdd(JsMul(v, simult_line_x2), intercept_on_ct_axis)>>

\* variant: the events drawn newest first
DrawEventsNewestFirst(evs, frame, v, cv) ==
    [markers |-> [i \in 1..Len(evs) |-> EventMarker(evs[Len(evs) + 1 - i], cv)],
     eventLines |-> [i \in 1..Len(evs) |->
                        EventLine(evs[Len(evs) + 1 - i], frame, v, cv)]]

\* events.forEach of sketch.draw: one marker and one line per event, in order
DrawEvents(evs, frame, v, cv) ==
    [markers |-> [i \in 1..Len(evs) |-> EventMarker(evs[i], cv)],
     eventLines |-> [i \in 1..Len(evs) |-> EventLine(evs[i], frame, v, cv)]]

\* variant: effective_v taken from currentSpacetimeVelocity before line 422
\* has stored the slider's value in it
drawThenStore(slider, frame, evs, cv) ==
    /\ currentSpacetimeVelocity' = parseFloat(SliderNumber(slider))
    /\ drawn' = [velocity |-> currentSpacetimeVelocity, frame |-> frame,
                 events |-> evs, canvas |-> cv, isSIUnits |-> isSIUnits, C |-> C]

\* sketch.draw, run on the state a handler leaves.  It stores the parsed
\* slider value in currentSpacetimeVelocity; drawn records what this call
\* read, from which its draw commands follow (EmittedEvents).
draw(slider, frame, evs, cv) ==
    /\ currentSpacetimeVelocity' = parseFloat(SliderNumber(slider))
    /\ drawn' = [velocity |-> parseFloat(SliderNumber(slider)), frame |-> frame,
                 events |-> evs, canvas |-> cv, isSIUnits |-> isSIUnits, C |-> C]

\* the markers and simultaneity lines emitted by the sketch.draw that read d
EmittedEvents(d) == DrawEvents(d.events, d.frame, d.velocity, d.canvas)

\* The texts sketch.draw writes (lines 429-432): the velocity display, with
\* its unit, and the Lorentz factor display
SpacetimeDisplays(d) ==
    LET gamma == calculateLorentzFactor(d.velocity)
    IN  [velocitySpacetimeDisplay |->
             IF d.isSIUnits
             THEN <<toExponential(JsMul(d.velocity, Num(C_SI, 1))), " m/s">>
             ELSE <<toFixed(d.velocity, 3), "c">>,
         lorentzFactorSpacetimeDisplay |-> toFixed(gamma, 2)]

\* variant: the two slopes of a branch exchanged
AxisSlopesExchanged(d) ==
    [axis2_slope |-> IF d.frame = "stationary" THEN JsDiv(One, d.velocity)
                     ELSE JsDiv(Num(-1, 1), d.velocity),
     axis1_slope |-> IF d.frame = "stationary" THEN d.velocity ELSE JsNeg(d.velocity),
     current_v_for_drawing |-> IF d.frame = "stationary" THEN d.velocity
                               ELSE JsNeg(d.velocity)]

\* variant: the slopes of the stationary branch taken in both frames
AxisSlopesUnsigned(d) ==
    [axis2_slope |-> d.velocity,
     axis1_slope |-> JsDiv(One, d.velocity),
     current_v_for_drawing |-> IF d.frame = "stationary" THEN d.velocity
                               ELSE JsNeg(d.velocity)]

\* The frame branch of sketch.draw (lines 464-490): the slope of the sheared
\* space axis, the slope of the sheared time axis and the velocity of the
\* shear
AxisSlopes(d) ==
    LET effective_v == d.velocity
    IN  IF d.frame = "stationary"
        THEN [axis2_slope |-> effective_v,
              axis1_slope |-> JsDiv(One, effective_v),
              current_v_for_drawing |-> d.velocity]
        ELSE [axis2_slope |-> JsNeg(effective_v),
              axis1_slope |-> JsDiv(Num(-1, 1), effective_v),
              current_v_for_drawing |-> JsNeg(d.velocity)]

\* variant: the intercept K left out of y = slope * x + K
SlopedLineNoIntercept(x1, x2, slope, intercept) ==
    <<x1, JsMul(slope, x1), x2, JsMul(slope, x2)>>

\* the line <<x1, y1, x2, y2>> through x1 and x2 with the slope and intercept
SlopedLine(x1, x2, slope, intercept) ==
    <<x1, JsAdd(JsMul(slope, x1), intercept), x2, JsAdd(JsMul(slope, x2), intercept)>>

\* variant: the sheared lines never special-cased
ZeroShearNever(sl) == FALSE

\* current_v_for_drawing === 0 (lines 525, 617 and 624)
ZeroShear(sl) == JsEq(sl.current_v_for_drawing, Zero)

\* the grid coordinates of the two for loops
GridCoords == [i \in 1..9 |-> Num(i - 5, 1)]

\* The sketch.line calls of sketch.draw before the events, by part, each line
\* as <<x1, y1, x2, y2>> in canvas units from the origin (y upwards)
DrawLines(d) ==
    LET cv == d.canvas
        scaleFactor == cv.scaleFactor
        unitScale == JsDiv(One, Num(C_norm, 1))
        v == d.velocity
        gamma == calculateLorentzFactor(v)
        canvas_half_width == JsDiv(Num(cv.width, 1), Num(2, 1))
        canvas_half_height == JsDiv(Num(cv.height, 1), Num(2, 1))
        extend_line_factor == Num(2, 1)
        far_x == JsMul(canvas_half_width, extend_line_factor)
        far_y == JsMul(canvas_half_height, extend_line_factor)
        sl == AxisSlopes(d)
        zeroShear == ZeroShear(sl)
        vertical(x, h) == <<x, JsNeg(h), x, h>>
        x_at_ct0_in_moving_frame == JsMul(JsDiv(One, gamma), JsDiv(One, Num(d.C, 1)))
    IN  [lightCone |->
             << <<JsNeg(far_x), JsNeg(far_x), far_x, far_x>>,
                <<JsNeg(far_x), far_x, far_x, JsNeg(far_x)>> >>,
         primaryAxes |->
             << <<JsNeg(canvas_half_width), Zero, canvas_half_width, Zero>>,
                vertical(Zero, canvas_half_height) >>,
         primaryVertical |->
             [i \in 1..9 |->
                 vertical(JsMul(JsMul(GridCoords[i], scaleFactor), unitScale),
                          canvas_half_height)],
         primaryHorizontal |->
             [i \in 1..9 |->
                 LET scaledCoord == JsMul(JsMul(GridCoords[i], scaleFactor), unitScale)
                 IN  <<JsNeg(canvas_half_width), scaledCoord,
                       canvas_half_width, scaledCoord>>],
         secondarySpaceAxis |->
             <<JsNeg(far_x), JsMul(JsNeg(far_x), sl.axis2_slope),
               far_x, JsMul(far_x, sl.axis2_slope)>>,
         secondaryTimeAxis |->
             IF zeroShear THEN vertical(Zero, far_y)
             ELSE <<JsNeg(far_x), JsMul(JsNeg(far_x), sl.axis1_slope),
                    far_x, JsMul(far_x, sl.axis1_slope)>>,
         observerWorldline |->
             IF d.frame = "stationary" /\ ~JsEq(v, Zero)
             THEN LET ct_prime_slope == JsDiv(One, v)
                  IN  <<JsNeg(far_x), JsMul(JsNeg(far_x), ct_prime_slope),
                        far_x, JsMul(far_x, ct_prime_slope)>>
             ELSE vertical(Zero, far_y),
         objectWorldline |->
             IF d.frame = "stationary" \/ JsEq(v, Zero)
             THEN vertical(JsMul(One, scaleFactor), canvas_half_height)
             ELSE LET obj_slope == JsDiv(One, JsNeg(v))
                      shift == JsMul(x_at_ct0_in_moving_frame, scaleFactor)
                  IN  <<JsNeg(far_x), JsMul(obj_slope, JsSub(JsNeg(far_x), shift)),
                        far_x, JsMul(obj_slope, JsSub(far_x, shift))>>,
         simultaneity |->
             [i \in 1..9 |->
                 LET K_val == JsMul(JsMul(JsDiv(GridCoords[i], gamma), scaleFactor),
                                    Num(C_norm, 1))
                 IN  SlopedLine(JsNeg(far_x), far_x, sl.axis2_slope, K_val)],
         constantPosition |->
             [i \in 1..9 |->
                 IF zeroShear
                 THEN vertical(JsMul(GridCoords[i], scaleFactor), far_y)
                 ELSE LET K_x_val ==
                              JsMul(JsNeg(JsDiv(GridCoords[i],
                                                JsMul(sl.current_v_for_drawing, gamma))),
                                    scaleFactor)
                      IN  SlopedLine(JsNeg(far_x), far_x, sl.axis1_slope, K_x_val)],
         timeAxisLabelAngle |->
             IF zeroShear THEN [degrees |-> 90, atanOf |-> Zero]
             ELSE [degrees |-> 0, atanOf |-> sl.axis1_slope],
         spaceAxisLabelAngle |-> [degrees |-> 0, atanOf |-> sl.axis2_slope]]

----------------------------------------------------------------------------
(* Interaction controller                                                  *)

\* Bounds of the model
MaxEvents == 2

\* the container sizes the page is laid out at, in pixels
CanvasSizes == {<<200, 200>>, <<400, 200>>}

\* pointer positions of clicks, in canvas pixels
MouseXs == {0, 100, 200}

MouseYs == {0, 60, 100, 200}

\* positions the user drags a slider to, in thousandths
SliderChoices == {-600, 0, 800}

\* data-velocity of the preset buttons (index.html lines 49-64)
PresetVelocities == {Num(1, 100000), Num(1, 100), Num(4, 5), Num(999, 1000)}

Frames == {"stationary", "moving"}

\* The value a range input with min -0.999, max 0.999 and step 0.001 holds
\* after input.value = v: the nearest step, clamped; the default 0 for NaN.
RangeValue(v) ==
    IF v.k = "nan" THEN 0
    ELSE IF v.k = "inf" THEN 999 * v.s
    ELSE LET num == 1000 * NatToInt(v.n)
             den == NatToInt(v.d)
             mag == (2 * num + den) \div (2 * den)
         IN  v.s * IntMin(mag, 999)

\* the record of a handler run: its name, the pointer position it read, the
\* number of events held when it started and, for frame changes that follow
\* one another, the axis slopes drawn before each of the last two
Handler(op) ==
    [op |-> op, mouseX |-> 0, mouseY |-> 0, held |-> Len(events), slopesBefore |-> <<>>]

\* updateAllVelocities(v) for the diagram: the global and the spacetime slider
\* take v, then s.redraw()
updateAllVelocities(v) ==
    /\ globalVelocityInput' = RangeValue(v)
    /\ velocitySpacetimeInput' = RangeValue(v)
    /\ draw(RangeValue(v), activeFrame, events, canvas)
    /\ UNCHANGED <<isSIUnits, C, activeFrame, events, canvas, probe>>

\* The three handlers below are followed for the diagram, which is all that
\* Spec looks at; what the same handlers do to the other sections and to the
\* time-dilation clocks is followed by PanelSpec.

\* 'input' on #global-velocity
GlobalVelocityInput(n) ==
    /\ updateAllVelocities(parseFloat(SliderNumber(n)))
    /\ last' = Handler("globalVelocity")
    /\ UNCHANGED panelVars

\* 'click' on a preset button
PresetClick(velocity) ==
    /\ updateAllVelocities(parseFloat(velocity))
    /\ last' = Handler("preset")
    /\ UNCHANGED panelVars

\* 'input' on #velocity-spacetime: s.redraw(), then updateAllVelocities
VelocitySpacetimeInput(n) ==
    /\ updateAllVelocities(parseFloat(SliderNumber(n)))
    /\ last' = Handler("velocitySpacetime")
    /\ UNCHANGED panelVars

\* the slopes drawn before the frame changes of a run of them, the last two
SlopesBefore ==
    IF last.op = "frame"
    THEN <<last.slopesBefore[Len(last.slopesBefore)], AxisSlopes(drawn)>>
    ELSE <<AxisSlopes(drawn)>>

\* variant: the moving frame got by turning the slider round, the stationary
\* frame by leaving it
FrameChangeNegateSlider(value) ==
    /\ value # activeFrame
    /\ activeFrame' = value
    /\ velocitySpacetimeInput' =
           IF value = "moving" THEN -velocitySpacetimeInput ELSE velocitySpacetimeInput
    /\ draw(velocitySpacetimeInput', "stationary", events, canvas)
    /\ last' = [Handler("frame") EXCEPT !.slopesBefore = SlopesBefore]
    /\ UNCHANGED <<isSIUnits, C, globalVelocityInput, events, canvas, probe, panelVars>>

\* 'change' on a frame radio button
FrameChange(value) ==
    /\ value # activeFrame
    /\ activeFrame' = value
    /\ draw(velocitySpacetimeInput, value, events, canvas)
    /\ last' = [Handler("frame") EXCEPT !.slopesBefore = SlopesBefore]
    /\ UNCHANGED <<isSIUnits, C, velocitySpacetimeInput, globalVelocityInput,
                   events, canvas, probe, panelVars>>

\* variant: the handler without the s.redraw() of line 770
ClearEventsClickNoRedraw ==
    /\ events' = <<>>
    /\ last' = Handler("clearEvents")
    /\ UNCHANGED <<isSIUnits, C, velocitySpacetimeInput, globalVelocityInput,
                   currentSpacetimeVelocity, activeFrame, canvas, drawn, probe, panelVars>>

\* 'click' on #clear-events-btn
ClearEventsClick ==
    /\ events' = <<>>
    /\ draw(velocitySpacetimeInput, activeFrame, <<>>, canvas)
    /\ last' = Handler("clearEvents")
    /\ UNCHANGED <<isSIUnits, C, velocitySpacetimeInput, globalVelocityInput,
                   activeFrame, canvas, probe, panelVars>>

\* 'change' on #units-toggle: no redraw is requested
UnitsToggleChange ==
    /\ isSIUnits' = ~isSIUnits
    /\ C' = IF isSIUnits' THEN C_SI ELSE C_norm
    /\ last' = Handler("unitsToggle")
    /\ UNCHANGED <<velocitySpacetimeInput, globalVelocityInput,
                   currentSpacetimeVelocity, activeFrame, events, canvas, drawn, probe, panelVars>>

\* variant: a resize that sets the diagram up again, stationary frame included
WindowResizedResetFrame(w, h) ==
    /\ canvas' = Geometry(w, h)
    /\ activeFrame' = "stationary"
    /\ draw(velocitySpacetimeInput, "stationary", events, Geometry(w, h))
    /\ last' = Handler("windowResized")
    /\ UNCHANGED <<isSIUnits, C, velocitySpacetimeInput, globalVelocityInput,
                   events, probe, panelVars>>

\* sketch.windowResized
WindowResized(w, h) ==
    /\ canvas' = Geometry(w, h)
    /\ draw(velocitySpacetimeInput, activeFrame, events, Geometry(w, h))
    /\ last' = Handler("windowResized")
    /\ UNCHANGED <<isSIUnits, C, velocitySpacetimeInput, globalVelocityInput,
                   activeFrame, events, probe, panelVars>>

\* variant: the click handler without the sketch.redraw() of line 742
MouseClickedNoRedraw(mouseX, mouseY) ==
    /\ last' = [Handler("mouseClicked") EXCEPT !.mouseX = mouseX, !.mouseY = mouseY]
    /\ IF InsideCanvas(mouseX, mouseY, canvas)
       THEN /\ Len(events) < MaxEvents
            /\ events' = PushEvent(events, ClickedEvent(mouseX, mouseY, canvas))
       ELSE UNCHANGED events
    /\ UNCHANGED <<isSIUnits, C, velocitySpacetimeInput, globalVelocityInput,
                   currentSpacetimeVelocity, activeFrame, canvas, drawn, probe, panelVars>>

\* sketch.mouseClicked
MouseClicked(mouseX, mouseY) ==
    /\ last' = [Handler("mouseClicked") EXCEPT !.mouseX = mouseX, !.mouseY = mouseY]
    /\ IF InsideCanvas(mouseX, mouseY, canvas)
       THEN /\ Len(events) < MaxEvents
            /\ events' = PushEvent(events, ClickedEvent(mouseX, mouseY, canvas))
            /\ draw(velocitySpacetimeInput, activeFrame, events', canvas)
       ELSE UNCHANGED <<events, currentSpacetimeVelocity, drawn>>
    /\ UNCHANGED <<isSIUnits, C, velocitySpacetimeInput, globalVelocityInput,
                   activeFrame, canvas, probe, panelVars>>

\* s.redraw() with nothing else changed
Redraw ==
    /\ draw(velocitySpacetimeInput, activeFrame, events, canvas)
    /\ last' = Handler("redraw")
    /\ UNCHANGED <<isSIUnits, C, velocitySpacetimeInput, globalVelocityInput,
                   activeFrame, events, canvas, probe, panelVars>>

NoProbe == [fn |-> "none", args |-> <<>>, si |-> FALSE]

\* The sections other than the diagram once the page is loaded: every section
\* slider at 0 and v1, v2 at 0.5 (index.html), the guard lowered by the
\* updateAllVelocities of the DOMContentLoaded handlers, and the clocks as the
\* three calls of updateTimeDilationClocks made while loading leave them
\* (line 326, then line 141 reached from lines 76 and 875): three ticks read
\* at velocity 0 and three callbacks requested.
InitPanels ==
    /\ velocityTimeInput = 0
    /\ velocityLengthInput = 0
    /\ twinVelocityInput = 0
    /\ length3DVelocityInput = 0
    /\ dopplerVelocityInput = 0
    /\ velocityV1Input = 500
    /\ velocityV2Input = 500
    /\ isGlobalUpdate = FALSE
    /\ isTimeDilationPlaying = TRUE
    /\ stationaryTime = 3
    /\ movingTime = [n \in {0} |-> 3]
    /\ animationFrameId = "pending"
    /\ pendingFrames = 3
    /\ lorentzFactorTimeDisplay = 0
    /\ lorentzFactorLengthDisplay = 0
    /\ updateRuns = 1

\* The page once loaded: sliders at 0, stationary frame, no events, natural
\* units, the canvas set up and drawn once.
InitPage ==
    /\ InitPanels
    /\ isSIUnits = FALSE
    /\ C = C_norm
    /\ velocitySpacetimeInput = 0
    /\ globalVelocityInput = 0
    /\ currentSpacetimeVelocity = Zero
    /\ activeFrame = "stationary"
    /\ events = <<>>
    /\ canvas = Geometry(200, 200)
    /\ drawn = [velocity |-> Zero, frame |-> "stationary", events |-> <<>>,
                canvas |-> Geometry(200, 200), isSIUnits |-> FALSE, C |-> C_norm]
    /\ last = Handler("load")

Init == InitPage /\ probe = NoProbe

Next ==
    \/ \E n \in SliderChoices : GlobalVelocityInput(n)
    \/ \E velocity \in PresetVelocities : PresetClick(velocity)
    \/ \E n \in SliderChoices : VelocitySpacetimeInput(n)
    \/ \E value \in Frames : FrameChange(value)
    \/ ClearEventsClick
    \/ UnitsToggleChange
    \/ \E size \in CanvasSizes : WindowResized(size[1], size[2])
    \/ \E mouseX \in MouseXs, mouseY \in MouseYs : MouseClicked(mouseX, mouseY)
    \/ Redraw

Spec == Init /\ [][Next]_vars

----------------------------------------------------------------------------
(* The math kernel called on its own: the arguments are drawn at the start, *)
(* a call applies one function to them under the unit mode then active.    *)

MaxPyth == 3

MaxGrid == 2

MaxNear == 2

MaxRecip == 2

MaxCoord == 1

\* (m^2 - n^2)/(m^2 + n^2): velocities in [-1, 1] whose Lorentz factor is rational
PythVelocities ==
    {Num(m * m - n * n, m * m + n * n) : <<m, n>> \in ((0..MaxPyth) \X (0..MaxPyth)) \ {<<0, 0>>}}

\* k/g up to one step beyond light speed
GridVelocities ==
    UNION {{Num(k, g) : k \in -(g + 1)..(g + 1)} : g \in 2..MaxGrid}

\* +-(1 - k * 1e-10): inside (-1, 1), next to light speed
NearLightVelocities ==
    LET ten10 == <<0, 0, 100>>
    IN  UNION {{Fin(1, NatSub(ten10, NatFromInt(k)), ten10),
                Fin(-1, NatSub(ten10, NatFromInt(k)), ten10)} : k \in 1..MaxNear}

\* +-k and +-1/k
ReciprocalVelocities ==
    UNION {{Num(k, 1), Num(-k, 1), Num(1, k), Num(-1, k)} : k \in 1..MaxRecip}

KernelVelocities ==
    PythVelocities \cup GridVelocities \cup NearLightVelocities \cup ReciprocalVelocities

KernelCoords == {Num(k, 1) : k \in -MaxCoord..MaxCoord}

\* the velocities handed to calculateLorentzFactor and lorentzTransform
GammaVelocities == PythVelocities \cup GridVelocities \cup ReciprocalVelocities

KernelArgs ==
    {<<v>> : v \in GammaVelocities}
        \cup (KernelVelocities \X KernelVelocities)
        \cup (KernelCoords \X KernelCoords \X GammaVelocities)

KernelInit ==
    /\ InitPage
    /\ \E args \in KernelArgs : probe = [NoProbe EXCEPT !.args = args]

\* The functions called on their own change no state: a call is recorded by
\* its name, next to its arguments and the unit mode it runs under, and what
\* it returns is computed from these (Returned).  The unit mode is switched
\* before a call, so that it is the mode of the call that is in force.
Called(fn) == [probe EXCEPT !.fn = fn, !.si = isSIUnits]

UnitsToggleBeforeCall == probe.fn = "none" /\ UnitsToggleChange

CallLorentzFactor ==
    /\ probe.fn = "none" /\ Len(probe.args) = 1
    /\ probe' = Called("calculateLorentzFactor")
    /\ UNCHANGED <<isSIUnits, C, uiVars>>

CallVelocityAddition ==
    /\ probe.fn = "none" /\ Len(probe.args) = 2
    /\ probe' = Called("calculateRelativisticVelocityAddition")
    /\ UNCHANGED <<isSIUnits, C, uiVars>>

CallLorentzTransform ==
    /\ probe.fn = "none" /\ Len(probe.args) = 3
    /\ probe' = Called("lorentzTransform")
    /\ UNCHANGED <<isSIUnits, C, uiVars>>

\* lorentzTransform applied to (tPrime, xPrime) of the call before, with -v
CallLorentzTransformBack ==
    /\ probe.fn = "lorentzTransform" /\ probe.si = isSIUnits
    /\ probe' = Called("lorentzTransformBack")
    /\ UNCHANGED <<isSIUnits, C, uiVars>>

KernelNext ==
    \/ UnitsToggleBeforeCall
    \/ CallLorentzFactor
    \/ CallVelocityAddition
    \/ CallLorentzTransform
    \/ CallLorentzTransformBack

KernelSpec == KernelInit /\ [][KernelNext]_vars

----------------------------------------------------------------------------
(* sketch.draw called on its own: the slider position, the frame and the    *)
(* container size are drawn at the start, a call computes the lines of the *)
(* diagram under the unit mode then active.                                *)

MaxSlow == 2

\* slider positions in thousandths: the slowest ones on either side of 0 and
\* 0 itself, the two ends of the range and two in between
DrawSliders == (-MaxSlow..MaxSlow) \cup {-999, -600, 800, 999}

DrawArgs == DrawSliders \X Frames \X CanvasSizes

DiagramInit ==
    /\ InitPage
    /\ \E args \in DrawArgs : probe = [NoProbe EXCEPT !.args = args]

\* what sketch.draw reads when the slider stands at args[1], the frame is
\* args[2] and the container has the size args[3], with two events held,
\* those of a click at (100, 60) and then one at (140, 120)
DrawRead(args) ==
    LET cv == Geometry(args[3][1], args[3][2])
    IN  [velocity |-> parseFloat(SliderNumber(args[1])), frame |-> args[2],
         events |-> <<ClickedEvent(100, 60, cv), ClickedEvent(140, 120, cv)>>,
         canvas |-> cv,
         isSIUnits |-> isSIUnits, C |-> C]

CallDraw ==
    /\ probe.fn = "none" /\ Len(probe.args) = 3
    /\ probe' = Called("draw")
    /\ UNCHANGED <<isSIUnits, C, uiVars>>

DiagramNext ==
    \/ UnitsToggleBeforeCall
    \/ CallDraw

DiagramSpec == DiagramInit /\ [][DiagramNext]_vars

----------------------------------------------------------------------------
(* The display texts of the velocity updates, called on their own: a       *)
(* velocity as a preset button or the page load hands it over, or a pair   *)
(* of positions of the v1 and v2 sliders, under the unit mode then active. *)

\* what a section reads back from its slider after `slider.value = v`
\* (lines 133-138, then lines 254, 342, 421 and 835)
SectionVelocity(v) == parseFloat(SliderNumber(RangeValue(v)))

\* variant: a section that takes the velocity handed over and the bare
\* formula 1 / sqrt(1 - v^2)
SectionGammaBare(v) ==
    JsDiv(One, JsSqrt(JsSub(One, JsMul(v, v))))

\* const gamma = calculateLorentzFactor(v) of a section, v read from its
\* slider (lines 254-255, 342-343 and 835-836)
SectionGamma(v) ==
    calculateLorentzFactor(SectionVelocity(v))

\* isSIUnits ? `${(v * C_SI).toExponential(2)} m/s` : `${v.toFixed(3)}c`
VelocityText(v, si) ==
    IF si THEN <<toExponential(JsMul(v, Num(C_SI, 1))), " m/s">>
    ELSE <<toFixed(v, 3), "c">>

\* The texts on the page once updateAllVelocities(v) has run under unit mode
\* si, the time dilation animation playing and both 3D scenes set up, each
\* as <<number text, suffix>>, and the position of the sliders
UpdateDisplays(v, si) ==
    LET section == SectionVelocity(v)
        gamma == SectionGamma(v)
        shown == VelocityText(section, si)
        factor == <<toFixed(gamma, 2), "">>
    IN  [globalVelocityDisplay |-> VelocityText(v, si),
         sliders |-> RangeValue(v),
         velocityTimeDisplay |-> shown,
         lorentzFactorTimeDisplay |-> factor,
         velocityLengthDisplay |-> shown,
         lorentzFactorLengthDisplay |-> factor,
         contractedLengthDisplay |->
             <<toFixed(JsDiv(Num(100, 1), gamma), 2),
               IF si THEN " meters" ELSE " units">>,
         velocitySpacetimeDisplay |-> shown,
         lorentzFactorSpacetimeDisplay |-> factor,
         twinVelocityDisplay |-> shown,
         travelingTwinTimeDisplay |-> <<toFixed(JsDiv(Num(10, 1), gamma), 2), " years">>,
         length3DVelocityDisplay |-> VelocityText(v, si),
         dopplerVelocityDisplay |-> VelocityText(v, si)]

\* The texts updateVelocityAddition writes
AdditionDisplays(v1, v2, si) ==
    LET vTotal == calculateRelativisticVelocityAddition(v1, v2)
    IN  [velocityV1Display |-> VelocityText(v1, si),
         velocityV2Display |-> VelocityText(v2, si),
         resultantVelocityDisplay |-> VelocityText(vTotal, si)]

MaxOver == 2

\* what parseFloat gives for a velocity text: NaN for a text that is no
\* number, else the number, light speed and beyond included
DisplayVelocities ==
    {NaN, Infinity, JsNeg(Infinity), Num(1, 100000)}
        \cup {SliderNumber(n) : n \in {0, 10, 800, -600, 999, -999}}
        \cup {Num(2 + k, 2) : k \in 0..MaxOver}
        \cup {Num(-2 - k, 2) : k \in 0..MaxOver}

AdditionSliders == {-999, -600, 0, 500, 800, 999}

DisplayArgs ==
    {<<v>> : v \in DisplayVelocities} \cup (AdditionSliders \X AdditionSliders)

DisplayInit ==
    /\ InitPage
    /\ \E args \in DisplayArgs : probe = [NoProbe EXCEPT !.args = args]

\* The texts after the click handler of a preset button whose data-velocity
\* parses to velocity
PresetClickDisplays(velocity, si) ==
    UpdateDisplays(parseFloat(velocity), si)

\* The texts after the three DOMContentLoaded handlers in turn (lines 67, 862
\* and 1090), the global slider's value parsing to value: the second reads
\* the slider as the first has set it, the third sets up the 3D scenes and
\* updates them with the literal 0
PageLoadDisplays(value, si) ==
    LET first == safeParseFloat(value, Zero)
        second == parseFloat(SliderNumber(RangeValue(first)))
        third == VelocityText(Zero, si)
    IN  [UpdateDisplays(second, si)
            EXCEPT !.length3DVelocityDisplay = third,
                   !.dopplerVelocityDisplay = third]

CallPresetClick ==
    /\ probe.fn = "none" /\ Len(probe.args) = 1
    /\ probe' = Called("presetClick")
    /\ UNCHANGED <<isSIUnits, C, uiVars>>

CallPageLoad ==
    /\ probe.fn = "none" /\ Len(probe.args) = 1
    /\ probe' = Called("pageLoad")
    /\ UNCHANGED <<isSIUnits, C, uiVars>>

CallUpdateVelocityAddition ==
    /\ probe.fn = "none" /\ Len(probe.args) = 2
    /\ probe' = Called("updateVelocityAddition")
    /\ UNCHANGED <<isSIUnits, C, uiVars>>

DisplayNext ==
    \/ UnitsToggleBeforeCall
    \/ CallPresetClick
    \/ CallPageLoad
    \/ CallUpdateVelocityAddition

DisplaySpec == DisplayInit /\ [][DisplayNext]_vars

----------------------------------------------------------------------------
(* What the call in flight returns, as a tuple: the value of a kernel      *)
(* function (tPrime and xPrime for lorentzTransform), for sketch.draw what *)
(* it has read, its lines and its event markers and lines, for the others  *)
(* the texts on the page afterwards.                                       *)

Returned ==
    CASE probe.fn = "calculateLorentzFactor" ->
             <<calculateLorentzFactor(probe.args[1])>>
      [] probe.fn = "calculateRelativisticVelocityAddition" ->
             <<calculateRelativisticVelocityAddition(probe.args[1], probe.args[2])>>
      [] probe.fn = "lorentzTransform" ->
             LET r == lorentzTransform(probe.args[1], probe.args[2], probe.args[3])
             IN  <<r.tPrime, r.xPrime>>
      [] probe.fn = "lorentzTransformBack" ->
             LET r    == lorentzTransform(probe.args[1], probe.args[2], probe.args[3])
                 back == lorentzTransform(r.tPrime, r.xPrime, JsNeg(probe.args[3]))
             IN  <<back.tPrime, back.xPrime>>
      [] probe.fn = "draw" ->
             LET d == DrawRead(probe.args)
             IN  <<d, DrawLines(d), EmittedEvents(d)>>
      [] probe.fn = "presetClick" ->
             <<PresetClickDisplays(probe.args[1], isSIUnits)>>
      [] probe.fn = "pageLoad" ->
             <<PageLoadDisplays(probe.args[1], isSIUnits)>>
      [] probe.fn = "updateVelocityAddition" ->
             <<AdditionDisplays(parseFloat(SliderNumber(probe.args[1])),
                                parseFloat(SliderNumber(probe.args[2])), isSIUnits)>>
      [] OTHER -> <<>>


----------------------------------------------------------------------------
(* Properties of the math kernel (under KernelSpec)                        *)

\* |a - b| <= tol
Within(a, b, tol) == JsLe(JsAbs(JsSub(a, b)), tol)

\* -1 < v < 1
Subluminal(v) == JsLt(JsAbs(v), One)

GammaCalled == probe.fn = "calculateLorentzFactor"

AdditionCalled == probe.fn = "calculateRelativisticVelocityAddition"

\* C1: for every input v with |v| >= 1 (exactly 1 and -1 included),
\* calculateLorentzFactor returns Infinity, never a finite gamma.
C1_LightSpeedSentinel ==
    (GammaCalled /\ JsGe(JsAbs(probe.args[1]), One)) => Returned[1] = Infinity

\* C2: for every v with |v| < 1 the result g of calculateLorentzFactor(v) is
\* 1/sqrt(1 - v^2) (g > 0 and g^2 * (1 - v^2) = 1 up to the rounding of the
\* square root), is >= 1 and equals the result for -v; it is exactly 1 at
\* v = 0 and within 1e-3 of 1.6667 at v = 0.8.
C2_LorentzFactor ==
    (GammaCalled /\ Subluminal(probe.args[1])) =>
        LET v == probe.args[1]
            g == Returned[1]
        IN  /\ g.k = "fin"
            /\ JsGe(g, One)
            /\ Within(JsMul(JsMul(g, g), JsSub(One, JsMul(v, v))), One,
                      Num(1, 1000000000))
            /\ JsEq(g, calculateLorentzFactor(JsNeg(v)))
            /\ (v = Zero => g = One)
            /\ (v = Num(4, 5) => Within(g, Num(16667, 10000), Num(1, 1000)))

\* C2 witness: calculateLorentzFactor(0.8) has returned 5/3
C2_Witness ==
    GammaCalled /\ probe.args[1] = Num(4, 5) /\ Returned[1] = Num(5, 3)

\* C3: for any (t, x, v) with |v| < 1, in whichever unit mode is active,
\* lorentzTransform with v and then, on its result, with -v returns the
\* original (t, x) within 1e-6.
C3_RoundTrip ==
    (probe.fn = "lorentzTransformBack" /\ Subluminal(probe.args[3])) =>
        /\ Within(Returned[1], probe.args[1], Num(1, 1000000))
        /\ Within(Returned[2], probe.args[2], Num(1, 1000000))

\* the round trip in natural units alone
RoundTripNatural == (~probe.si) => C3_RoundTrip

\* C4 as stated: for all v1, v2 in (-1, 1) the result r of
\* calculateRelativisticVelocityAddition is (v1 + v2)/(1 + v1*v2), that is
\* r * (1 + v1*v2) = v1 + v2; it is v1 when v2 = 0 and within 1e-3 of 0.8 for
\* (0.5, 0.5).
C4_Original ==
    (AdditionCalled /\ Subluminal(probe.args[1]) /\ Subluminal(probe.args[2])) =>
        LET v1 == probe.args[1]
            v2 == probe.args[2]
            r  == Returned[1]
        IN  /\ JsEq(JsMul(r, JsAdd(One, JsMul(v1, v2))), JsAdd(v1, v2))
            /\ (v2 = Zero => JsEq(r, v1))
            /\ ((v1 = Num(1, 2) /\ v2 = Num(1, 2)) => Within(r, Num(4, 5), Num(1, 1000)))

\* C4 amended: the same for all v1, v2 in (-1, 1) with |1 + v1*v2| >= 1e-9,
\* in either unit mode.
C4_VelocityAddition ==
    (/\ AdditionCalled
     /\ JsGe(JsAbs(JsAdd(One, JsMul(probe.args[1], probe.args[2]))), Num(1, 1000000000)))
        => C4_Original

\* C4 witness: the call for (0.5, 0.5) has returned 0.8
C4_Witness ==
    AdditionCalled /\ probe.args = <<Num(1, 2), Num(1, 2)>> /\ Returned[1] = Num(4, 5)

\* C5: for all v1, v2 in (-1, 1), in either unit mode, the magnitude of
\* calculateRelativisticVelocityAddition(v1, v2) never exceeds 1.
C5_MagnitudeAtMostOne ==
    (AdditionCalled /\ Subluminal(probe.args[1]) /\ Subluminal(probe.args[2])) =>
        JsLe(JsAbs(Returned[1]), One)

\* C6: when |1 + v1*v2| is below 1e-9 the result is sign(v1 + v2), in either
\* unit mode.
C6_Saturation ==
    (/\ AdditionCalled
     /\ JsLt(JsAbs(JsAdd(One, JsMul(probe.args[1], probe.args[2]))), Num(1, 1000000000)))
        => JsEq(Returned[1], JsSign(JsAdd(probe.args[1], probe.args[2])))

\* C5 and C6 in natural units alone
SaturationNatural == (~probe.si) => (C5_MagnitudeAtMostOne /\ C6_Saturation)

----------------------------------------------------------------------------
(* Properties of the event collection (under Spec)                         *)

\* the last handler was a click strictly inside the canvas
ClickedInside ==
    /\ last.op = "mouseClicked"
    /\ last.mouseX > 0 /\ last.mouseX < canvas.width
    /\ last.mouseY > 0 /\ last.mouseY < canvas.height

\* the last handler was a click not strictly inside the canvas
ClickedOutside ==
    /\ last.op = "mouseClicked"
    /\ (\/ last.mouseX <= 0 \/ last.mouseX >= canvas.width
        \/ last.mouseY <= 0 \/ last.mouseY >= canvas.height)

\* C7: a click at (px, py) strictly inside the canvas appends the event
\* x = (px - originX)/scaleFactor, ct = -(py - originY)/scaleFactor, in either
\* frame and at any velocity; a click at the canvas centre appends (0, 0).
C7_ClickAppendsEvent ==
    [][ClickedInside' =>
          LET px == Num(last'.mouseX, 1)
              py == Num(last'.mouseY, 1)
          IN  /\ events' = Append(events,
                     [x  |-> JsDiv(JsSub(px, canvas.originX), canvas.scaleFactor),
                      ct |-> JsNeg(JsDiv(JsSub(py, canvas.originY), canvas.scaleFactor))])
              /\ ((2 * last'.mouseX = canvas.width /\ 2 * last'.mouseY = canvas.height)
                    => events'[Len(events')] = [x |-> Zero, ct |-> Zero])]_vars

\* C7 witness: in the moving frame at v = 0.8, a click 40 pixels above the
\* centre of the 200 x 200 canvas has appended (0, 1)
C7_Witness ==
    /\ ClickedInside
    /\ activeFrame = "moving" /\ currentSpacetimeVelocity = Num(4, 5)
    /\ canvas.width = 200 /\ last.mouseX = 100 /\ last.mouseY = 60
    /\ last.held = 1
    /\ events[Len(events)] = [x |-> Zero, ct |-> One]

\* C8: a click not strictly inside the canvas (mouseX <= 0, mouseX >= width,
\* mouseY <= 0 or mouseY >= height) does not grow the event collection and
\* leaves the velocity, the active frame and the events as they were.
C8_OutsideClickIgnored ==
    [][ClickedOutside' =>
          /\ Len(events') <= Len(events)
          /\ events' = events
          /\ velocitySpacetimeInput' = velocitySpacetimeInput
          /\ globalVelocityInput' = globalVelocityInput
          /\ currentSpacetimeVelocity' = currentSpacetimeVelocity
          /\ activeFrame' = activeFrame]_vars

\* C8 witness: a click on the left edge (mouseX = 0) in the moving frame with
\* an event held
C8_Witness ==
    /\ ClickedOutside /\ last.mouseX = 0 /\ last.mouseY = 60
    /\ Len(events) = 1 /\ last.held = 1
    /\ activeFrame = "moving"

\* C9: after any handler other than clear-events the previous event sequence
\* is a prefix of the new one; a click strictly inside the canvas extends it
\* by exactly one record at the end, also when an equal record is held
\* already, at every length up to MaxEvents; every other handler leaves it
\* as it was.
C9_AppendOnly ==
    [][last'.op # "clearEvents" =>
          /\ Len(events') >= Len(events)
          /\ SubSeq(events', 1, Len(events)) = events
          /\ Len(events') = Len(events) + (IF ClickedInside' THEN 1 ELSE 0)]_vars

\* C9 witness: a click has appended a record equal to the one before it and
\* the collection has reached MaxEvents
C9_Witness ==
    /\ ClickedInside
    /\ Len(events) = MaxEvents /\ last.held = MaxEvents - 1
    /\ events[Len(events)] = events[Len(events) - 1]

\* C10: after clear-events the event collection is empty whatever it held,
\* the redraw of the handler emits no event marker and no simultaneity line
\* of an event, and the velocity and the active frame are as before.
C10_ClearEvents ==
    [][last'.op = "clearEvents" =>
          /\ events' = <<>>
          /\ EmittedEvents(drawn').markers = <<>>
          /\ EmittedEvents(drawn').eventLines = <<>>
          /\ velocitySpacetimeInput' = velocitySpacetimeInput
          /\ currentSpacetimeVelocity' = currentSpacetimeVelocity
          /\ activeFrame' = activeFrame]_vars

\* C10 witness: clear-events has run on a collection of two events or more,
\* in the moving frame at v = 0.8
C10_Witness ==
    /\ last.op = "clearEvents" /\ last.held >= 2
    /\ events = <<>>
    /\ activeFrame = "moving" /\ currentSpacetimeVelocity = Num(4, 5)

----------------------------------------------------------------------------
(* Properties of the diagram's axes and of the redraw discipline (under     *)
(* Spec)                                                                   *)

\* two frame changes have followed one another
ToggledTwice == last.op = "frame" /\ Len(last.slopesBefore) = 2

\* C11: switching the reference frame and switching it back, with the
\* velocity left alone, draws the sheared axes with the slopes they had
\* before the two switches (space axis and time axis alike).
C11_FrameToggleInvolution ==
    ToggledTwice =>
        /\ AxisSlopes(drawn).axis2_slope = last.slopesBefore[1].axis2_slope
        /\ AxisSlopes(drawn).axis1_slope = last.slopesBefore[1].axis1_slope

\* C11 witness: at v = 0.8 the frame went to moving (space axis slope -0.8)
\* and back to stationary (slope 0.8 as before)
C11_Witness ==
    /\ ToggledTwice
    /\ drawn.frame = "stationary" /\ drawn.velocity = Num(4, 5)
    /\ last.slopesBefore[1].axis2_slope = Num(4, 5)
    /\ last.slopesBefore[2].axis2_slope = Num(-4, 5)
    /\ AxisSlopes(drawn).axis1_slope = Num(5, 4)

----------------------------------------------------------------------------
(* Properties of the lines of the diagram (under DiagramSpec)              *)

DrawCalled == probe.fn = "draw"

\* the line <<x1, y1, x2, y2>> is horizontal at height y
HorizontalAt(line, y) == JsEq(line[2], y) /\ JsEq(line[4], y) /\ ~JsEq(line[1], line[3])

\* the line <<x1, y1, x2, y2>> is vertical at abscissa x
VerticalAt(line, x) == JsEq(line[1], x) /\ JsEq(line[3], x) /\ ~JsEq(line[2], line[4])

\* C12: at v = 0, in either frame, the sheared space axis is horizontal
\* through the origin, the sheared time axis vertical through the origin,
\* the 9 simultaneity lines lie on the horizontal grid lines at
\* n * scaleFactor and the 9 constant-position lines on the vertical grid
\* lines at n * scaleFactor, n = -4..4.
C12_ZeroVelocityAligned ==
    (DrawCalled /\ Returned[1].velocity = Zero) =>
        LET d == Returned[1]
            L == Returned[2]
        IN  /\ HorizontalAt(L.secondarySpaceAxis, Zero)
            /\ VerticalAt(L.secondaryTimeAxis, Zero)
            /\ \A i \in 1..9 :
                  LET at == JsMul(Num(i - 5, 1), d.canvas.scaleFactor)
                  IN  /\ HorizontalAt(L.simultaneity[i], at)
                      /\ HorizontalAt(L.primaryHorizontal[i], at)
                      /\ VerticalAt(L.constantPosition[i], at)
                      /\ VerticalAt(L.primaryVertical[i], at)

\* C12 witness: drawn at v = 0 in the moving frame on the 400 x 200 canvas,
\* the outermost constant-position line vertical at x = 4 * 40
C12_Witness ==
    /\ DrawCalled
    /\ Returned[1].velocity = Zero /\ Returned[1].frame = "moving"
    /\ Returned[1].canvas.width = 400
    /\ VerticalAt(Returned[2].constantPosition[9], Num(160, 1))
    /\ HorizontalAt(Returned[2].simultaneity[1], Num(-160, 1))

----------------------------------------------------------------------------
(* Properties of the frame model and of the redraw discipline (under Spec) *)

\* the handlers that request a redraw
RedrawingHandlers ==
    {"globalVelocity", "preset", "velocitySpacetime", "frame", "clearEvents",
     "windowResized", "redraw"}

\* sketch.draw runs in this step: the handler requests a redraw, a click does
\* when it lands inside the canvas.  No handler writes
\* currentSpacetimeVelocity itself, so its value when sketch.draw is entered
\* is the one before the step.
DrawRan ==
    \/ last'.op \in RedrawingHandlers
    \/ last'.op = "mouseClicked" /\ events' # events

\* C13: sketch.draw leaves the frame model as it finds it: the stored
\* velocity is the same after the call as before, and the frame and the
\* events it has read are those still held.
C13_DrawLeavesModel ==
    [][DrawRan =>
          /\ currentSpacetimeVelocity' = currentSpacetimeVelocity
          /\ activeFrame' = drawn'.frame
          /\ events' = drawn'.events]_vars

\* the handler that ran last has drawn: nothing sketch.draw reads has
\* changed since its sketch.draw returned
LastRanDraw ==
    \/ last.op \in RedrawingHandlers
    \/ last.op = "mouseClicked" /\ Len(events) > last.held

\* C14: sketch.draw run again on the state the draw before it has read
\* (velocity, frame, events, unit mode and canvas geometry unchanged) reads
\* the same values, leaves the same stored velocity and draws the same
\* axes; run once more, and any number of times, it emits the same event
\* markers and lines and writes the same v and gamma display texts.
C14_RedrawIdempotent ==
    [][(last'.op = "redraw" /\ LastRanDraw) =>
          /\ drawn' = drawn
          /\ currentSpacetimeVelocity' = currentSpacetimeVelocity
          /\ AxisSlopes(drawn') = AxisSlopes(drawn)
          /\ (last.op = "redraw" =>
                 /\ EmittedEvents(drawn') = EmittedEvents(drawn)
                 /\ SpacetimeDisplays(drawn') = SpacetimeDisplays(drawn))]_vars

\* C14 witness: redrawn twice in a row at v = 0.8 in SI units with an event
\* held, the velocity display reading 2.40e+8 m/s and the gamma display 1.67
C14_Witness ==
    /\ last.op = "redraw"
    /\ drawn.isSIUnits /\ drawn.velocity = Num(4, 5) /\ Len(drawn.events) = 1
    /\ SpacetimeDisplays(drawn).velocitySpacetimeDisplay
           = <<Text("exponential", FALSE, <<240>>, 2, 8), " m/s">>
    /\ SpacetimeDisplays(drawn).lorentzFactorSpacetimeDisplay
           = Text("fixed", FALSE, <<167>>, 2, 0)

\* C15: the active frame is 'stationary' when the page has loaded, is one of
\* 'stationary' and 'moving' in every reachable state, and changes only in a
\* step of the frame selector's handler (not on a velocity change, a preset,
\* a click, a clear, a resize or a unit toggle).
C15_FrameLifecycle ==
    /\ activeFrame = "stationary"
    /\ [](activeFrame \in Frames)
    /\ [][activeFrame' # activeFrame => last'.op = "frame"]_vars

\* C15 witness: the moving frame, chosen earlier, is still active after a
\* resize with events held
C15_Witness ==
    /\ activeFrame = "moving" /\ drawn.frame = "moving"
    /\ last.op = "windowResized" /\ Len(events) = 1

\* what sketch.draw reads of the frame model and the canvas
Read(slider, frame, evs, cv) ==
    [velocity |-> parseFloat(SliderNumber(slider)), frame |-> frame,
     events |-> evs, canvas |-> cv]

\* what the sketch.draw recorded in d has read of them
ReadBy(d) ==
    [velocity |-> d.velocity, frame |-> d.frame, events |-> d.events,
     canvas |-> d.canvas]

\* the last drawing is one of the current velocity, frame, events and geometry
DrawingCurrent ==
    ReadBy(drawn) = Read(velocitySpacetimeInput, activeFrame, events, canvas)

\* C16: a step that changes the velocity (either slider, a preset), the
\* active frame, the event collection (click inside, clear) or the canvas
\* geometry (resize) runs sketch.draw after the change, so that once a
\* handler has returned the last drawing is one of the current velocity,
\* frame, events and geometry.
C16_RedrawAfterChange ==
    /\ []DrawingCurrent
    /\ [][<<velocitySpacetimeInput, activeFrame, events, canvas>>'
              # <<velocitySpacetimeInput, activeFrame, events, canvas>>
          => /\ DrawRan
             /\ ReadBy(drawn') = Read(velocitySpacetimeInput', activeFrame',
                                      events', canvas')]_vars

\* C16 witness: a click has added a second event in the moving frame at
\* v = -0.6 on the resized canvas, and the drawing shows both events
C16_Witness ==
    /\ last.op = "mouseClicked" /\ Len(events) = 2 /\ last.held = 1
    /\ activeFrame = "moving" /\ velocitySpacetimeInput = -600
    /\ canvas.width = 400
    /\ DrawingCurrent

\* every coordinate of the line <<x1, y1, x2, y2>> is a finite number
FiniteLine(line) == \A i \in 1..4 : line[i].k = "fin"

\* the sketch.line calls of a draw: those of DrawLines and the event lines
LinesOf(L, E) ==
    {L.lightCone[1], L.lightCone[2], L.primaryAxes[1], L.primaryAxes[2],
     L.secondarySpaceAxis, L.secondaryTimeAxis, L.observerWorldline, L.objectWorldline}
        \cup {L.primaryVertical[i] : i \in 1..9}
        \cup {L.primaryHorizontal[i] : i \in 1..9}
        \cup {L.simultaneity[i] : i \in 1..9}
        \cup {L.constantPosition[i] : i \in 1..9}
        \cup {E.eventLines[i] : i \in 1..Len(E.eventLines)}

\* C17: for every slider velocity from -0.999 to 0.999, 0 included, and
\* either frame, every endpoint coordinate handed to sketch.line is a finite
\* number; at v = 0 the sheared time axis, the observer worldline, the object
\* worldline and the constant-position lines are literal vertical lines and
\* the time-axis label angle is the literal 90, the slope 1/v being unused.
C17_FiniteEndpoints ==
    DrawCalled =>
        LET d == Returned[1]
            L == Returned[2]
            E == Returned[3]
        IN  /\ \A line \in LinesOf(L, E) : FiniteLine(line)
            /\ L.timeAxisLabelAngle.atanOf.k = "fin"
            /\ L.spaceAxisLabelAngle.atanOf.k = "fin"
            /\ d.velocity = Zero =>
                  /\ VerticalAt(L.secondaryTimeAxis, Zero)
                  /\ VerticalAt(L.observerWorldline, Zero)
                  /\ VerticalAt(L.objectWorldline, d.canvas.scaleFactor)
                  /\ \A i \in 1..9 :
                        VerticalAt(L.constantPosition[i],
                                   JsMul(Num(i - 5, 1), d.canvas.scaleFactor))
                  /\ L.timeAxisLabelAngle.degrees = 90

\* C17 witness: drawn at v = 0 in the stationary frame, where axis1_slope is
\* 1/0 = Infinity, with the sheared time axis a vertical line of finite ends
C17_Witness ==
    /\ DrawCalled
    /\ Returned[1].velocity = Zero /\ Returned[1].frame = "stationary"
    /\ AxisSlopes(Returned[1]).axis1_slope = Infinity
    /\ Returned[2].secondaryTimeAxis
           = <<Zero, Num(-200, 1), Zero, Num(200, 1)>>
    /\ FiniteLine(Returned[3].eventLines[1])

\* one of the texts of a call, each a number text and its suffix, shows NaN
ShowsNaN(displays) ==
    \E f \in DOMAIN displays \ {"sliders"} : displays[f][1].form = "NaN"

VelocityCalled == probe.fn \in {"presetClick", "pageLoad"}

\* C18: a velocity text that is no number is replaced by 0 on every path that
\* reads a velocity: after the call the sliders and the displays are those
\* of velocity 0.
C18_UnparsableBecomesZero ==
    (VelocityCalled /\ isNaN(probe.args[1]))
        => Returned[1] = UpdateDisplays(Zero, probe.si)

DisplayCalled ==
    probe.fn \in {"presetClick", "pageLoad", "updateVelocityAddition"}

SlopeOf(line) ==
    JsDiv(JsSub(line[4], line[2]), JsSub(line[3], line[1]))

\* the line, produced both ways, contains the origin
ThroughOrigin(line) ==
    JsEq(JsMul(line[1], line[4]), JsMul(line[3], line[2]))

\* v in the stationary frame, -v in the moving frame
FrameSigned(frame, v) == IF frame = "stationary" THEN v ELSE JsNeg(v)

\* C20: in a draw with v # 0 the sheared space axis has slope v (stationary
\* frame active) or -v (moving frame active), the sheared time axis slope 1/v
\* or -1/v, and both pass through the origin.
C20_ShearedAxisSlopes ==
    (DrawCalled /\ ~JsEq(Returned[1].velocity, Zero))
        => LET v == Returned[1].velocity
               frame == Returned[1].frame
               space == Returned[2].secondarySpaceAxis
               time == Returned[2].secondaryTimeAxis
           IN  /\ JsEq(SlopeOf(space), FrameSigned(frame, v))
               /\ JsEq(SlopeOf(time), FrameSigned(frame, JsDiv(One, v)))
               /\ ThroughOrigin(space)
               /\ ThroughOrigin(time)

\* a draw at 0.8c with the moving frame active: slopes -4/5 and -5/4
C20_Witness ==
    /\ DrawCalled
    /\ Returned[1].velocity = Num(4, 5)
    /\ Returned[1].frame = "moving"
    /\ JsEq(SlopeOf(Returned[2].secondarySpaceAxis), Num(-4, 5))
    /\ JsEq(SlopeOf(Returned[2].secondaryTimeAxis), Num(-5, 4))

\* two lines with the same endpoints
SameLine(a, b) == \A i \in 1..4 : JsEq(a[i], b[i])

\* C21: in every draw the highlighted observer worldline is the moving
\* frame's time axis of that draw: with the stationary frame active it is the
\* sheared time axis (slope 1/v through the origin, vertical at v = 0), with
\* the moving frame active the vertical through the origin.
C21_ObserverWorldline ==
    DrawCalled =>
        LET d == Returned[1]
            L == Returned[2]
            w == L.observerWorldline
        IN  IF d.frame = "stationary"
            THEN /\ SameLine(w, L.secondaryTimeAxis)
                 /\ IF JsEq(d.velocity, Zero) THEN VerticalAt(w, Zero)
                    ELSE JsEq(SlopeOf(w), JsDiv(One, d.velocity)) /\ ThroughOrigin(w)
            ELSE /\ VerticalAt(w, Zero)
                 /\ VerticalAt(L.primaryAxes[2], Zero)

\* a draw at -0.6c with the stationary frame active: the worldline has slope
\* -5/3, as the sheared time axis
C21_Witness ==
    /\ DrawCalled
    /\ Returned[1].frame = "stationary"
    /\ Returned[1].velocity = Num(-3, 5)
    /\ JsEq(SlopeOf(Returned[2].observerWorldline), Num(-5, 3))
    /\ JsEq(SlopeOf(Returned[2].secondaryTimeAxis), Num(-5, 3))

\* the abscissa at which a sloped line <<x1, y1, x2, y2>> has ordinate 0
CrossingOf(line) ==
    JsSub(line[1], JsDiv(line[2], SlopeOf(line)))

\* C22: with the moving frame active and v # 0, in either unit mode, the
\* worldline of the object at rest at x = 1 has slope -1/v and crosses the
\* primary space axis at scaleFactor / gamma pixels; with the stationary
\* frame active it is the vertical at scaleFactor pixels.
C22_ObjectWorldline ==
    DrawCalled =>
        LET d == Returned[1]
            w == Returned[2].objectWorldline
            gamma == calculateLorentzFactor(d.velocity)
        IN  IF d.frame = "moving" /\ ~JsEq(d.velocity, Zero)
            THEN /\ JsEq(SlopeOf(w), JsDiv(Num(-1, 1), d.velocity))
                 /\ JsEq(CrossingOf(w), JsDiv(d.canvas.scaleFactor, gamma))
            ELSE d.frame = "stationary" => VerticalAt(w, d.canvas.scaleFactor)

\* the ordinate of a sloped line <<x1, y1, x2, y2>> at abscissa 0
InterceptOf(line) ==
    JsSub(line[2], JsMul(SlopeOf(line), line[1]))

\* the line contains the point
PassesThrough(line, point) ==
    JsEq(JsAdd(JsMul(SlopeOf(line), point[1]), InterceptOf(line)), point[2])

\* C23: a draw emits one marker and one simultaneity line per stored event,
\* in insertion order; the line is horizontal at the event's ct with the
\* stationary frame active, has slope v and intercept (ct - v*x) * scaleFactor
\* with the moving frame active, and passes through the event's marker.
C23_EventMarkersAndLines ==
    DrawCalled =>
        LET d == Returned[1]
            E == Returned[3]
            scaleFactor == d.canvas.scaleFactor
            v == d.velocity
        IN  /\ Len(E.markers) = Len(d.events)
            /\ Len(E.eventLines) = Len(d.events)
            /\ \A i \in 1..Len(d.events) :
                   LET event == d.events[i]
                       line == E.eventLines[i]
                       marker == E.markers[i]
                   IN  /\ JsEq(marker[1], JsMul(event.x, scaleFactor))
                       /\ JsEq(marker[2], JsMul(event.ct, scaleFactor))
                       /\ IF d.frame = "stationary"
                          THEN HorizontalAt(line, marker[2])
                          ELSE /\ JsEq(SlopeOf(line), v)
                               /\ JsEq(InterceptOf(line),
                                       JsMul(JsSub(event.ct, JsMul(v, event.x)),
                                             scaleFactor))
                               /\ PassesThrough(line, marker)

\* a draw of two different events at 0.8c with the moving frame active
C23_Witness ==
    /\ DrawCalled
    /\ Len(Returned[1].events) = 2
    /\ Returned[1].events[1] # Returned[1].events[2]
    /\ Returned[1].frame = "moving"
    /\ Returned[1].velocity = Num(4, 5)
    /\ Len(Returned[3].eventLines) = 2
    /\ JsEq(SlopeOf(Returned[3].eventLines[2]), Num(4, 5))

-----------------------------------------------------------------------------
(* The velocity controls and the time-dilation clocks (PanelSpec)          *)

\* the most ticks the stationary clock is followed for
MaxTicks == 5

\* the most pending callbacks the animation is followed for
MaxPending == 4

\* const deltaTime = 0.05 (line 260)
deltaTime == Num(1, 20)

\* the clocks and their animation as one value
Clock ==
    [playing |-> isTimeDilationPlaying, stationary |-> stationaryTime,
     moving |-> movingTime, handle |-> animationFrameId, pending |-> pendingFrames,
     shown |-> lorentzFactorTimeDisplay]

\* the variables take the clock value
SetClock(clock) ==
    /\ isTimeDilationPlaying' = clock.playing
    /\ stationaryTime' = clock.stationary
    /\ movingTime' = clock.moving
    /\ animationFrameId' = clock.handle
    /\ pendingFrames' = clock.pending
    /\ lorentzFactorTimeDisplay' = clock.shown
    /\ clock.stationary <= MaxTicks
    /\ clock.pending <= MaxPending

\* stationaryTime = 0; movingTime = 0
NoTicks == [n \in {} |-> 0]

\* movingTime += deltaTime / gamma, gamma read from slider value n
AddTick(moving, n) ==
    [m \in DOMAIN moving \cup {n} |->
        (IF m \in DOMAIN moving THEN moving[m] ELSE 0) + (IF m = n THEN 1 ELSE 0)]

\* variant: the function without its early return while paused
updateTimeDilationClocksUnguarded(clock, n) ==
    [clock EXCEPT !.shown = n, !.stationary = @ + 1, !.moving = AddTick(@, n),
                  !.handle = "pending", !.pending = @ + 1]

\* updateTimeDilationClocks() with the time slider at n: nothing while paused;
\* else the Lorentz factor shown, one tick, and one more callback requested,
\* whose handle replaces the one held
updateTimeDilationClocks(clock, n) ==
    IF ~clock.playing THEN clock
    ELSE [clock EXCEPT !.shown = n, !.stationary = @ + 1, !.moving = AddTick(@, n),
                       !.handle = "pending", !.pending = @ + 1]

\* if (animationFrameId) cancelAnimationFrame(animationFrameId): the callback
\* whose handle is held is dropped if it is still pending
cancelAnimationFrame(clock) ==
    IF clock.handle = "pending"
    THEN [clock EXCEPT !.handle = "spent", !.pending = @ - 1]
    ELSE clock

\* stationaryTime = 0; movingTime = 0
ZeroClocks(clock) == [clock EXCEPT !.stationary = 0, !.moving = NoTicks]

\* the callbacks of one animation frame, run one after the other
RECURSIVE RunCallbacks(_, _, _)
RunCallbacks(clock, n, count) ==
    IF count = 0 THEN clock
    ELSE RunCallbacks(updateTimeDilationClocks(clock, n), n, count - 1)

\* everything of the diagram but the record of the last handler
diagramVars == <<isSIUnits, C, velocitySpacetimeInput, globalVelocityInput,
                 currentSpacetimeVelocity, activeFrame, events, canvas, drawn, probe>>

\* variant: updateAllVelocities without the assignment of line 136
updateAllSectionsButTwin(v, clock) ==
    /\ isGlobalUpdate' = FALSE
    /\ velocityTimeInput' = RangeValue(v)
    /\ velocityLengthInput' = RangeValue(v)
    /\ length3DVelocityInput' = RangeValue(v)
    /\ dopplerVelocityInput' = RangeValue(v)
    /\ SetClock(updateTimeDilationClocks(clock, RangeValue(v)))
    /\ lorentzFactorLengthDisplay' = RangeValue(v)
    /\ updateRuns' = 1
    /\ UNCHANGED <<twinVelocityInput, additionVars>>

\* updateAllVelocities(v) for the other sections, the clocks being as `clock'
\* when it is called: the guard raised (126), the five section sliders
\* assigned (133-138, no 'input' event follows an assignment),
\* updateTimeDilationClocks() (141), updateLengthContraction() (142), the
\* guard lowered (161); v1 and v2 are not mentioned
updateAllSections(v, clock) ==
    /\ isGlobalUpdate' = FALSE
    /\ velocityTimeInput' = RangeValue(v)
    /\ velocityLengthInput' = RangeValue(v)
    /\ twinVelocityInput' = RangeValue(v)
    /\ length3DVelocityInput' = RangeValue(v)
    /\ dopplerVelocityInput' = RangeValue(v)
    /\ SetClock(updateTimeDilationClocks(clock, RangeValue(v)))
    /\ lorentzFactorLengthDisplay' = RangeValue(v)
    /\ updateRuns' = 1
    /\ UNCHANGED additionVars

\* a handler's updateAllVelocities(v): the diagram's share and the sections'
UpdateAll(v, clock) ==
    /\ updateAllVelocities(v)
    /\ updateAllSections(v, clock)

\* In PanelSpec the record of the last handler names its kind: "script",
\* "load", "velocityControl" (the global slider, a preset, a section slider),
\* "velocityAddition" (v1, v2) or "clockButton" (play/pause, reset).

\* the page has run its DOMContentLoaded handlers
Loaded == last.op # "script"

\* 'input' on #global-velocity (lines 120-122)
GlobalInput(n) ==
    /\ Loaded
    /\ UpdateAll(parseFloat(SliderNumber(n)), Clock)
    /\ last' = Handler("velocityControl")

\* 'click' on a preset button (lines 165-170)
PresetInput(velocity) ==
    /\ Loaded
    /\ UpdateAll(parseFloat(velocity), Clock)
    /\ last' = Handler("velocityControl")

\* 'input' on #velocity-time (lines 278-293): the clocks zeroed, playing, the
\* callback held cancelled, updateTimeDilationClocks(), then
\* updateAllVelocities unless the guard is up
TimeInput(n) ==
    /\ Loaded
    /\ LET restarted == cancelAnimationFrame([ZeroClocks(Clock) EXCEPT !.playing = TRUE])
           ticked == updateTimeDilationClocks(restarted, n)
       IN  IF isGlobalUpdate
           THEN /\ velocityTimeInput' = n
                /\ SetClock(ticked)
                /\ updateRuns' = 0
                /\ UNCHANGED <<diagramVars, velocityLengthInput, twinVelocityInput,
                               length3DVelocityInput, dopplerVelocityInput,
                               isGlobalUpdate, additionVars, lorentzFactorLengthDisplay>>
           ELSE UpdateAll(parseFloat(SliderNumber(n)), ticked)
    /\ last' = Handler("velocityControl")

\* 'input' on #velocity-length (lines 358-364): updateLengthContraction(),
\* then updateAllVelocities unless the guard is up
LengthInput(n) ==
    /\ Loaded
    /\ IF isGlobalUpdate
       THEN /\ velocityLengthInput' = n
            /\ lorentzFactorLengthDisplay' = n
            /\ updateRuns' = 0
            /\ UNCHANGED <<diagramVars, velocityTimeInput, twinVelocityInput,
                           length3DVelocityInput, dopplerVelocityInput,
                           isGlobalUpdate, additionVars, clockVars,
                           lorentzFactorTimeDisplay>>
       ELSE UpdateAll(parseFloat(SliderNumber(n)), Clock)
    /\ last' = Handler("velocityControl")

\* 'input' on #velocity-spacetime (lines 750-758): s.redraw(), then
\* updateAllVelocities unless the guard is up
SpacetimeInput(n) ==
    /\ Loaded
    /\ IF isGlobalUpdate
       THEN /\ velocitySpacetimeInput' = n
            /\ draw(n, activeFrame, events, canvas)
            /\ updateRuns' = 0
            /\ UNCHANGED <<isSIUnits, C, globalVelocityInput, activeFrame, events,
                           canvas, probe, velocityTimeInput, velocityLengthInput,
                           twinVelocityInput, length3DVelocityInput,
                           dopplerVelocityInput, isGlobalUpdate, additionVars,
                           clockVars, displayVars>>
       ELSE UpdateAll(parseFloat(SliderNumber(n)), Clock)
    /\ last' = Handler("velocityControl")

\* 'input' on #twin-velocity (lines 848-854)
TwinInput(n) ==
    /\ Loaded
    /\ IF isGlobalUpdate
       THEN /\ twinVelocityInput' = n
            /\ updateRuns' = 0
            /\ UNCHANGED <<diagramVars, velocityTimeInput, velocityLengthInput,
                           length3DVelocityInput, dopplerVelocityInput,
                           isGlobalUpdate, additionVars, clockVars, displayVars>>
       ELSE UpdateAll(parseFloat(SliderNumber(n)), Clock)
    /\ last' = Handler("velocityControl")

\* 'input' on #doppler-velocity (lines 1213-1219)
DopplerInput(n) ==
    /\ Loaded
    /\ IF isGlobalUpdate
       THEN /\ dopplerVelocityInput' = n
            /\ updateRuns' = 0
            /\ UNCHANGED <<diagramVars, velocityTimeInput, velocityLengthInput,
                           twinVelocityInput, length3DVelocityInput,
                           isGlobalUpdate, additionVars, clockVars, displayVars>>
       ELSE UpdateAll(parseFloat(SliderNumber(n)), Clock)
    /\ last' = Handler("velocityControl")

\* 'input' on #length-3d-velocity (lines 1222-1228)
Length3DInput(n) ==
    /\ Loaded
    /\ IF isGlobalUpdate
       THEN /\ length3DVelocityInput' = n
            /\ updateRuns' = 0
            /\ UNCHANGED <<diagramVars, velocityTimeInput, velocityLengthInput,
                           twinVelocityInput, dopplerVelocityInput,
                           isGlobalUpdate, additionVars, clockVars, displayVars>>
       ELSE UpdateAll(parseFloat(SliderNumber(n)), Clock)
    /\ last' = Handler("velocityControl")

\* 'input' on #velocity-v1 (line 819): updateVelocityAddition()
V1Input(n) ==
    /\ Loaded
    /\ velocityV1Input' = n
    /\ updateRuns' = 0
    /\ last' = Handler("velocityAddition")
    /\ UNCHANGED <<diagramVars, velocityTimeInput, velocityLengthInput,
                   twinVelocityInput, length3DVelocityInput, dopplerVelocityInput,
                   isGlobalUpdate, velocityV2Input, clockVars, displayVars>>

\* 'input' on #velocity-v2 (line 820): updateVelocityAddition()
V2Input(n) ==
    /\ Loaded
    /\ velocityV2Input' = n
    /\ updateRuns' = 0
    /\ last' = Handler("velocityAddition")
    /\ UNCHANGED <<diagramVars, velocityTimeInput, velocityLengthInput,
                   twinVelocityInput, length3DVelocityInput, dopplerVelocityInput,
                   isGlobalUpdate, velocityV1Input, clockVars, displayVars>>

\* 'click' on #play-pause-time (lines 296-307)
PlayPauseClick ==
    /\ Loaded
    /\ LET toggled == [Clock EXCEPT !.playing = ~@]
       IN  SetClock(IF toggled.playing
                    THEN updateTimeDilationClocks(toggled, velocityTimeInput)
                    ELSE cancelAnimationFrame(toggled))
    /\ updateRuns' = 0
    /\ last' = Handler("clockButton")
    /\ UNCHANGED <<diagramVars, velocityTimeInput, velocityLengthInput,
                   twinVelocityInput, length3DVelocityInput, dopplerVelocityInput,
                   isGlobalUpdate, additionVars, lorentzFactorLengthDisplay>>

\* 'click' on #reset-time (lines 310-323)
ResetClick ==
    /\ Loaded
    /\ SetClock(cancelAnimationFrame([ZeroClocks(Clock) EXCEPT !.playing = FALSE]))
    /\ updateRuns' = 0
    /\ last' = Handler("clockButton")
    /\ UNCHANGED <<diagramVars, velocityTimeInput, velocityLengthInput,
                   twinVelocityInput, length3DVelocityInput, dopplerVelocityInput,
                   isGlobalUpdate, additionVars, lorentzFactorLengthDisplay>>

\* One animation frame: the browser runs every callback requested before it,
\* each callback being updateTimeDilationClocks (line 275); the callbacks a
\* frame requests wait for the next frame.
AnimationFrame ==
    /\ pendingFrames > 0
    /\ SetClock(RunCallbacks([Clock EXCEPT !.pending = 0,
                                           !.handle = IF @ = "pending" THEN "spent" ELSE @],
                             velocityTimeInput, pendingFrames))
    /\ UNCHANGED <<diagramVars, last, velocityTimeInput, velocityLengthInput,
                   twinVelocityInput, length3DVelocityInput, dopplerVelocityInput,
                   isGlobalUpdate, updateRuns, additionVars, lorentzFactorLengthDisplay>>

\* The handlers of DOMContentLoaded: updateAllVelocities of the global
\* slider's value at line 76 (through safeParseFloat) and again at line 875.
\* The second run starts from the clocks the first has left.
DOMContentLoaded ==
    /\ ~Loaded
    /\ LET v == safeParseFloat(SliderNumber(globalVelocityInput), Zero)
           first == updateTimeDilationClocks(Clock, RangeValue(v))
       IN  UpdateAll(parseFloat(SliderNumber(RangeValue(v))), first)
    /\ last' = Handler("load")

\* The page once script.js has been evaluated and before DOMContentLoaded:
\* updateTimeDilationClocks() has run once (line 326); the 'input' dispatched
\* at line 775 has drawn the diagram and entered updateAllVelocities(0), which
\* raised the guard and stopped at line 136, twinVelocityInput being declared
\* at line 827 only, so that the guard is still up and the twin slider still
\* has the 0.8 of index.html (line 283).
PanelInit ==
    /\ isSIUnits = FALSE
    /\ C = C_norm
    /\ velocitySpacetimeInput = 0
    /\ globalVelocityInput = 0
    /\ currentSpacetimeVelocity = Zero
    /\ activeFrame = "stationary"
    /\ events = <<>>
    /\ canvas = Geometry(200, 200)
    /\ drawn = [velocity |-> Zero, frame |-> "stationary", events |-> <<>>,
                canvas |-> Geometry(200, 200), isSIUnits |-> FALSE, C |-> C_norm]
    /\ last = Handler("script")
    /\ probe = NoProbe
    /\ velocityTimeInput = 0
    /\ velocityLengthInput = 0
    /\ twinVelocityInput = 800
    /\ length3DVelocityInput = 0
    /\ dopplerVelocityInput = 0
    /\ velocityV1Input = 500
    /\ velocityV2Input = 500
    /\ isGlobalUpdate = TRUE
    /\ isTimeDilationPlaying = TRUE
    /\ stationaryTime = 1
    /\ movingTime = AddTick(NoTicks, 0)
    /\ animationFrameId = "pending"
    /\ pendingFrames = 1
    /\ lorentzFactorTimeDisplay = 0
    /\ lorentzFactorLengthDisplay = 0
    /\ updateRuns = 1

\* slider positions the user moves a section slider to
PanelChoices == {-600, 800}

\* slider positions the user moves v1 or v2 to
PanelAdditionChoices == {-600}

\* preset buttons clicked
PanelPresets == {Num(1, 100000)}

PanelNext ==
    \/ DOMContentLoaded
    \/ AnimationFrame
    \/ PlayPauseClick
    \/ ResetClick
    \/ \E n \in PanelChoices : GlobalInput(n)
    \/ \E velocity \in PanelPresets : PresetInput(velocity)
    \/ \E n \in PanelChoices : TimeInput(n)
    \/ \E n \in PanelChoices : LengthInput(n)
    \/ \E n \in PanelChoices : SpacetimeInput(n)
    \/ \E n \in PanelChoices : TwinInput(n)
    \/ \E n \in PanelChoices : DopplerInput(n)
    \/ \E n \in PanelChoices : Length3DInput(n)
    \/ \E n \in PanelAdditionChoices : V1Input(n)
    \/ \E n \in PanelAdditionChoices : V2Input(n)

PanelSpec == PanelInit /\ [][PanelNext]_vars

-----------------------------------------------------------------------------
(* Properties of the velocity controls and the clocks (under PanelSpec)    *)

\* the last handler was that of a velocity control: the global slider, a
\* preset button or one of the six section sliders
VelocityControlReturned == last.op = "velocityControl"

\* C24: at any time at most one animation-frame callback of
\* updateTimeDilationClocks is pending, whatever page-load updates, slider
\* inputs, presets, play/pause and reset have occurred, and so a frame that
\* runs while playing advances the stationary clock by exactly one step.
C24_SingleAnimationChain ==
    [][/\ pendingFrames' <= 1
       /\ (AnimationFrame /\ isTimeDilationPlaying) => stationaryTime' = stationaryTime + 1]_vars

\* variant: the moving clock advanced by deltaTime * gamma
MovingDeltaDilated(n) == JsMul(deltaTime, calculateLorentzFactor(parseFloat(SliderNumber(n))))

\* movingTime as a number: deltaTime / gamma summed over the ticks read at
\* slider value n (lines 256, 263)
MovingDelta(n) == JsDiv(deltaTime, calculateLorentzFactor(parseFloat(SliderNumber(n))))

RECURSIVE MovingSum(_, _)
MovingSum(moving, left) ==
    IF left = {} THEN Zero
    ELSE LET n == CHOOSE m \in left : TRUE
         IN  JsAdd(JsMul(Num(moving[n], 1), MovingDelta(n)),
                   MovingSum(moving, left \ {n}))

\* the value of movingTime
MovingTimeOf(moving) == MovingSum(moving, DOMAIN moving)

\* the value of stationaryTime: deltaTime added once per tick (line 262)
StationaryTimeOf(ticks) == JsMul(Num(ticks, 1), deltaTime)

\* C25: while the animation is paused, stationaryTime and movingTime never
\* increase: no step that leaves the animation paused (Pause, Reset, a
\* callback requested earlier that fires, the global slider, a preset, a
\* section slider other than the time slider) makes either clock larger.
C25_PausedClocksStand ==
    [][~isTimeDilationPlaying' =>
          /\ \/ stationaryTime' = stationaryTime
             \/ JsLe(StationaryTimeOf(stationaryTime'), StationaryTimeOf(stationaryTime))
          /\ \/ movingTime' = movingTime
             \/ JsLe(MovingTimeOf(movingTime'), MovingTimeOf(movingTime))]_vars

\* a stale callback has fired, or a velocity control has been used, while the
\* animation was paused with time on the clocks
C25_Witness ==
    /\ ~isTimeDilationPlaying
    /\ stationaryTime > 0
    /\ pendingFrames = 0
    /\ animationFrameId = "spent"
    /\ VelocityControlReturned
    /\ velocityTimeInput = 800

\* C26: in every reachable state 0 <= movingTime <= stationaryTime.
C26_MovingClockBehind ==
    /\ JsLe(Zero, MovingTimeOf(movingTime))
    /\ JsLe(MovingTimeOf(movingTime), StationaryTimeOf(stationaryTime))

\* the clocks have ticked at a velocity with gamma > 1 and the moving clock is
\* strictly behind
C26_Witness ==
    /\ stationaryTime >= 2
    /\ 800 \in DOMAIN movingTime
    /\ -600 \in DOMAIN movingTime
    /\ JsLt(MovingTimeOf(movingTime), StationaryTimeOf(stationaryTime))
    /\ JsLt(Zero, MovingTimeOf(movingTime))

\* the velocity sliders that updateAllVelocities assigns
SliderValues ==
    {globalVelocityInput, velocityTimeInput, velocityLengthInput,
     velocitySpacetimeInput, twinVelocityInput, length3DVelocityInput,
     dopplerVelocityInput}

\* C27: after the handler of any velocity control has returned, the global
\* slider and the six section sliders hold one value, and the handler has
\* left v1 and v2 as they were (a step that ends with a velocity control as
\* the last handler is that handler or an animation frame after it).
C27_SlidersAgree ==
    [][VelocityControlReturned' =>
          /\ Cardinality(SliderValues') = 1
          /\ UNCHANGED <<velocityV1Input, velocityV2Input>>]_vars

\* a section slider moved to 0.8 has taken every slider along, after v1 and v2
\* were moved away from their initial 0.5
C27_Witness ==
    /\ VelocityControlReturned
    /\ SliderValues = {800}
    /\ velocityV1Input = -600
    /\ velocityV2Input = -600

\* gamma.toFixed(2) with gamma read from a slider at n (lines 254-258, 342-350)
LorentzFactorText(n) ==
    toFixed(calculateLorentzFactor(parseFloat(SliderNumber(n))), 2)

\* C28: after the handler of any velocity control has returned, the Lorentz
\* factor shown by the time-dilation, the length-contraction and the
\* spacetime panel is the gamma of that panel's slider, whether the animation
\* is playing or paused.
C28_LorentzFactorsShown ==
    VelocityControlReturned =>
        /\ LorentzFactorText(lorentzFactorTimeDisplay) = LorentzFactorText(velocityTimeInput)
        /\ LorentzFactorText(lorentzFactorLengthDisplay) = LorentzFactorText(velocityLengthInput)
        /\ SpacetimeDisplays(drawn).lorentzFactorSpacetimeDisplay
               = LorentzFactorText(velocitySpacetimeInput)

-----------------------------------------------------------------------------
(* Where an event's marker is drawn (under DiagramSpec)                    *)

\* variant: the marker's pixel with the y axis left unflipped
MarkerPixelUnflipped(marker, cv) ==
    <<JsAdd(cv.originX, marker[1]), JsAdd(cv.originY, marker[2])>>

\* the canvas pixel of a marker drawn at `marker' after translate(originX,
\* originY) and scale(1, -1)
MarkerPixel(marker, cv) ==
    <<JsAdd(cv.originX, marker[1]), JsSub(cv.originY, marker[2])>>

\* pixel p is the point (px, py)
AtPixel(p, px, py) == JsEq(p[1], Num(px, 1)) /\ JsEq(p[2], Num(py, 1))

\* C30: with the canvas geometry that of the click, the marker of an event
\* created by a click at pixel (px, py) is drawn at that pixel by every draw,
\* whatever the velocity, the active frame and the unit mode the draw reads
\* (the events held are those of a click at (100, 60) and one at (140, 120)).
C30_MarkerStaysAtClick ==
    DrawCalled =>
        LET d == Returned[1]
            E == Returned[3]
        IN  /\ d.events = <<ClickedEvent(100, 60, d.canvas), ClickedEvent(140, 120, d.canvas)>>
            /\ AtPixel(MarkerPixel(E.markers[1], d.canvas), 100, 60)
            /\ AtPixel(MarkerPixel(E.markers[2], d.canvas), 140, 120)

\* a draw in the moving frame at v = 0.8 in SI units on the wider canvas has
\* put the two markers at the pixels clicked
C30_Witness ==
    /\ DrawCalled
    /\ Returned[1].frame = "moving"
    /\ Returned[1].velocity = Num(4, 5)
    /\ Returned[1].isSIUnits
    /\ Returned[1].canvas = Geometry(400, 200)
    /\ AtPixel(MarkerPixel(Returned[3].markers[2], Returned[1].canvas), 140, 120)

====
